---- MODULE Spec2Model ----
(***************************************************************************)
(* Model of the AI Form Filling Assistant content script                   *)
(* (chrome-extension/js/content.js): the date normaliser, the value        *)
(* writer, the field classifier and the autofill session controller.       *)
(*                                                                         *)
(* JavaScript strings are modelled as sequences of one-character strings,  *)
(* so that the regular expressions, parseInt, padStart, toLowerCase and    *)
(* includes of the source are computed and not assumed.                    *)
(***************************************************************************)
EXTENDS Integers, Sequences, FiniteSets, TLC

VARIABLES
  dateStr,   \* the string handed to parseDate ("dateStr", content.js:411)
  dateObj,   \* the value parseDate returned, NotRun before it ran
  dateSrc,   \* the CanonicalDate handed to formatDateToExpected, Null if none
  dateFmt,   \* the format handed to formatDateToExpected
  datePc,    \* "format" -> "parse" -> "done"
  dateIn,    \* how the input string was put together (its shape and parts)
  callPc,    \* the function of the script called on its own, "done" once it returned
  callArg,   \* the arguments of that call
  callResult, \* what the call returned, NotRun before it returned
  pageForms,        \* the form elements in the document
  ctl,              \* per control: value, checked, events of the last fillField, highlighted
  detectedFields,   \* content.js:47
  isAutofillActive, \* content.js:49
  buttonShown,      \* #form-assistant-btn is in the document
  consentPopup,     \* #form-assistant-popup: open, the data it was built from, #consent-check
  verifyPopup,      \* #form-assistant-verify: open, and the event target it was opened for
  formListeners,    \* forms carrying the capturing submit listener handleFormSubmit
  btnListeners,     \* submit controls carrying the capturing click listener
  pendingRequests,  \* GET_AUTOFILL_DATA requests awaiting their response
  pendingDetect,    \* setTimeout(detectForms, ...) timers not yet fired
  consentObserved,  \* history: confirm was clicked with #consent-check checked
  lastOp            \* history: the handler that ran last and what it did

dateVars == <<dateStr, dateObj, dateSrc, dateFmt, datePc, dateIn>>

pageVars == <<pageForms, ctl>>

engineVars ==
  <<detectedFields, isAutofillActive, buttonShown, consentPopup, verifyPopup,
    formListeners, btnListeners, pendingRequests, pendingDetect>>

historyVars == <<consentObserved, lastOp>>

sessionVars == <<pageVars, engineVars, historyVars>>

callVars == <<callPc, callArg, callResult>>

vars == <<dateVars, sessionVars, callVars>>

----------------------------------------------------------------------------
(* Strings *)

DigitChars == <<"0","1","2","3","4","5","6","7","8","9">>

IsDigit(c) == \E i \in 1..10 : DigitChars[i] = c

DigitVal(c) == (CHOOSE i \in 1..10 : DigitChars[i] = c) - 1

AllDigits(s) == \A i \in 1..Len(s) : IsDigit(s[i])

\* the character class [\/\-\.] of the date patterns
IsDateSep(c) == c \in {"/", "-", "."}

\* JavaScript null, and the marker of a function that has not run yet
Null == [null |-> TRUE]

NotRun == [notRun |-> TRUE]

\* value of a non-empty string of decimal digits
RECURSIVE DigitsValue(_)
DigitsValue(s) ==
  IF s = <<>> THEN 0
  ELSE 10 * DigitsValue(SubSeq(s, 1, Len(s) - 1)) + DigitVal(s[Len(s)])

\* length of the longest prefix of s that consists of digits
RECURSIVE DigitPrefixLen(_)
DigitPrefixLen(s) ==
  IF s = <<>> \/ ~IsDigit(Head(s)) THEN 0 ELSE 1 + DigitPrefixLen(Tail(s))

RECURSIVE SkipSpaces(_)
SkipSpaces(s) ==
  IF s # <<>> /\ Head(s) = " " THEN SkipSpaces(Tail(s)) ELSE s

\* parseInt(s) without radix: leading white space is skipped, an optional sign
\* is read, then the longest run of decimal digits; NaN when there is none.
\* (No string of the model starts with "0x", the one case parseInt reads as hex.)
parseInt(s) ==
  LET t    == SkipSpaces(s)
      neg  == t # <<>> /\ Head(t) = "-"
      u    == IF t # <<>> /\ Head(t) \in {"-", "+"} THEN Tail(t) ELSE t
      n    == DigitPrefixLen(u)
  IN IF n = 0 THEN [nan |-> TRUE, n |-> 0]
     ELSE [nan |-> FALSE,
           n |-> IF neg THEN 0 - DigitsValue(SubSeq(u, 1, n))
                 ELSE DigitsValue(SubSeq(u, 1, n))]

\* parseInt(s) === k
ParseIntIs(s, k) == ~parseInt(s).nan /\ parseInt(s).n = k

\* String(n) for an integer n >= 0
RECURSIVE NumToStr(_)
NumToStr(n) ==
  IF n < 10 THEN <<DigitChars[n + 1]>>
  ELSE NumToStr(n \div 10) \o <<DigitChars[(n % 10) + 1]>>

\* s.padStart(2, '0')
PadStart2(s) == IF Len(s) >= 2 THEN s ELSE IF Len(s) = 1 THEN <<"0">> \o s ELSE <<"0","0">>

----------------------------------------------------------------------------
(* Date normaliser: parseDate, content.js:411-463 *)

MaxMonth == 12

\* /^(\d{4})$/
YearOnlyMatch(s) == Len(s) = 4 /\ AllDigits(s)

\* /^(\d{1,2})[\/\-\.](\d{1,2})[\/\-\.](\d{4})$/ : the lengths <<a, b>> of the
\* first two groups for which the pattern matches (at most one pair)
DMYMatch(s) ==
  { ab \in (1..2) \X (1..2) :
      LET a == ab[1]
          b == ab[2]
      IN /\ Len(s) = a + b + 6
         /\ AllDigits(SubSeq(s, 1, a))
         /\ IsDateSep(s[a + 1])
         /\ AllDigits(SubSeq(s, a + 2, a + 1 + b))
         /\ IsDateSep(s[a + b + 2])
         /\ AllDigits(SubSeq(s, a + b + 3, a + b + 6)) }

\* an ISO pattern that matches nothing
ISOMatch_Never(s) == {}

\* /^(\d{4})[\/\-\.](\d{1,2})[\/\-\.](\d{1,2})$/ : the lengths <<a, b>> of the
\* second and third group
ISOMatch(s) ==
  { ab \in (1..2) \X (1..2) :
      LET a == ab[1]
          b == ab[2]
      IN /\ Len(s) = a + b + 6
         /\ AllDigits(SubSeq(s, 1, 4))
         /\ IsDateSep(s[5])
         /\ AllDigits(SubSeq(s, 6, 5 + a))
         /\ IsDateSep(s[6 + a])
         /\ AllDigits(SubSeq(s, 7 + a, 6 + a + b)) }

Min(a, b) == IF a <= b THEN a ELSE b

\* DisambiguateDMY with the month-first (American) convention tried first
DisambiguateDMY_MonthFirst(first, second, year) ==
  IF first <= MaxMonth THEN [day |-> second, month |-> first, year |-> year]
  ELSE IF second <= MaxMonth THEN [day |-> first, month |-> second, year |-> year]
  ELSE [day |-> first, month |-> Min(second, MaxMonth), year |-> year]

\* DisambiguateDMY without the clamp of an out-of-range month
DisambiguateDMY_NoClamp(first, second, year) ==
  IF second <= MaxMonth THEN [day |-> first, month |-> second, year |-> year]
  ELSE IF first <= MaxMonth THEN [day |-> second, month |-> first, year |-> year]
  ELSE [day |-> first, month |-> second, year |-> year]

\* DisambiguateDMY that always reads day first and never swaps
DisambiguateDMY_NoSwap(first, second, year) ==
  [day |-> first, month |-> Min(second, MaxMonth), year |-> year]

\* lines 428-449: the day/month disambiguation of the D/M/YYYY shape
DisambiguateDMY(first, second, year) ==
  IF second <= MaxMonth THEN [day |-> first, month |-> second, year |-> year]
  ELSE IF first <= MaxMonth THEN [day |-> second, month |-> first, year |-> year]
  ELSE [day |-> first, month |-> Min(second, MaxMonth), year |-> year]

\* the year-only result without its yearOnly flag
YearOnlyResult_NoFlag(s) == [day |-> 1, month |-> 1, year |-> parseInt(s).n]

\* lines 417-422: the result for a bare year
YearOnlyResult(s) ==
  [day |-> 1, month |-> 1, year |-> parseInt(s).n, yearOnly |-> TRUE]

parseDate(s) ==
  IF s = <<>> THEN Null
  ELSE IF YearOnlyMatch(s) THEN YearOnlyResult(s)
  ELSE IF DMYMatch(s) # {}
    THEN LET ab == CHOOSE x \in DMYMatch(s) : TRUE
             a  == ab[1]
             b  == ab[2]
         IN DisambiguateDMY(parseInt(SubSeq(s, 1, a)).n,
                            parseInt(SubSeq(s, a + 2, a + 1 + b)).n,
                            parseInt(SubSeq(s, a + b + 3, a + b + 6)).n)
  ELSE IF ISOMatch(s) # {}
    THEN LET ab == CHOOSE x \in ISOMatch(s) : TRUE
             a  == ab[1]
             b  == ab[2]
         IN [day   |-> parseInt(SubSeq(s, 7 + a, 6 + a + b)).n,
             month |-> parseInt(SubSeq(s, 6, 5 + a)).n,
             year  |-> parseInt(SubSeq(s, 1, 4)).n]
  ELSE Null

----------------------------------------------------------------------------
(* Date normaliser: formatDateToExpected, content.js:538-559 *)

monthNames ==
  << <<"J","a","n">>, <<"F","e","b">>, <<"M","a","r">>, <<"A","p","r">>,
     <<"M","a","y">>, <<"J","u","n">>, <<"J","u","l">>, <<"A","u","g">>,
     <<"S","e","p">>, <<"O","c","t">>, <<"N","o","v">>, <<"D","e","c">> >>

\* monthNames[dateObj.month - 1] inside a template literal: an index outside
\* the table reads undefined, which the template renders as "undefined"
MonthNameOf(m) ==
  IF m \in 1..Len(monthNames) THEN monthNames[m]
  ELSE <<"u","n","d","e","f","i","n","e","d">>

Formats == {"DD-Mon-YYYY", "DD/MM/YYYY", "DD-MM-YYYY", "MM/DD/YYYY", "YYYY-MM-DD"}

\* formatDateToExpected without padStart and with ISO as the default
formatDateToExpected_Unpadded(dateObject, format) ==
  LET day       == NumToStr(dateObject.day)
      month     == NumToStr(dateObject.month)
      year      == NumToStr(dateObject.year)
      monthName == MonthNameOf(dateObject.month)
  IN CASE format = "DD-Mon-YYYY" -> day \o <<"-">> \o monthName \o <<"-">> \o year
       [] format = "DD/MM/YYYY"  -> day \o <<"/">> \o month \o <<"/">> \o year
       [] format = "DD-MM-YYYY"  -> day \o <<"-">> \o month \o <<"-">> \o year
       [] format = "MM/DD/YYYY"  -> month \o <<"/">> \o day \o <<"/">> \o year
       [] format = "YYYY-MM-DD"  -> year \o <<"-">> \o month \o <<"-">> \o day
       [] OTHER                  -> year \o <<"-">> \o month \o <<"-">> \o day

formatDateToExpected(dateObject, format) ==
  LET day       == PadStart2(NumToStr(dateObject.day))
      month     == PadStart2(NumToStr(dateObject.month))
      year      == NumToStr(dateObject.year)
      monthName == MonthNameOf(dateObject.month)
  IN CASE format = "DD-Mon-YYYY" -> day \o <<"-">> \o monthName \o <<"-">> \o year
       [] format = "DD/MM/YYYY"  -> day \o <<"/">> \o month \o <<"/">> \o year
       [] format = "DD-MM-YYYY"  -> day \o <<"-">> \o month \o <<"-">> \o year
       [] format = "MM/DD/YYYY"  -> month \o <<"/">> \o day \o <<"/">> \o year
       [] format = "YYYY-MM-DD"  -> year \o <<"-">> \o month \o <<"-">> \o day
       [] OTHER                  -> day \o <<"/">> \o month \o <<"/">> \o year

----------------------------------------------------------------------------
(* More of String.prototype: toLowerCase, includes, trim *)

LowerChars == <<"a","b","c","d","e","f","g","h","i","j","k","l","m","n","o","p","q","r","s","t","u","v","w","x","y","z">>

UpperChars == <<"A","B","C","D","E","F","G","H","I","J","K","L","M","N","O","P","Q","R","S","T","U","V","W","X","Y","Z">>

LowerChar(c) ==
  IF \E i \in 1..Len(UpperChars) : UpperChars[i] = c
  THEN LowerChars[CHOOSE i \in 1..Len(UpperChars) : UpperChars[i] = c]
  ELSE c

toLowerCase(s) == [i \in 1..Len(s) |-> LowerChar(s[i])]

\* hay.includes(needle)
Includes(hay, needle) ==
  \E k \in 0..(Len(hay) - Len(needle)) : SubSeq(hay, k + 1, k + Len(needle)) = needle

RECURSIVE TrimEnd(_)
TrimEnd(s) ==
  IF s # <<>> /\ s[Len(s)] = " " THEN TrimEnd(SubSeq(s, 1, Len(s) - 1)) ELSE s

trim(s) == TrimEnd(SkipSpaces(s))

\* a || b on strings: the empty string is falsy
OrElse(a, b) == IF a # <<>> THEN a ELSE b

----------------------------------------------------------------------------
(* Field classifier: FIELD_MAPPING, getFieldLabel, identifyField            *)
(* content.js:21-44, 138-189                                               *)
(*                                                                         *)
(* A control is a record of what the source reads of a DOM element:        *)
(*   tag, type, name, id, placeholder, ariaLabel                           *)
(*   forLabel    <<text>> of the label[for=id] element, <<>> if none       *)
(*   parentLabel <<text>> of the enclosing label, <<>> if none             *)
(*   prevLabel   <<text>> of a preceding LABEL or SPAN sibling, else <<>>  *)
(*   options     the options of a select, each [value, text]               *)
(*   value       the value attribute                                       *)
(*   form        the form element it is a descendant of, 0 if none         *)
(*   formAttr    the form its form="..." attribute names, 0 if none        *)

\* Object.entries(FIELD_MAPPING): the keys in insertion order
FIELD_MAPPING ==
  << [fieldType |-> "name",
      patterns  |-> << <<"n","a","m","e">>,
                      <<"f","u","l","l","_","n","a","m","e">>,
                      <<"f","u","l","l","n","a","m","e">>,
                      <<"a","p","p","l","i","c","a","n","t","_","n","a","m","e">>,
                      <<"a","p","p","l","i","c","a","n","t","n","a","m","e">> >>],
     [fieldType |-> "full_name",
      patterns  |-> << <<"n","a","m","e">>,
                      <<"f","u","l","l","_","n","a","m","e">>,
                      <<"f","u","l","l","n","a","m","e">>,
                      <<"a","p","p","l","i","c","a","n","t","_","n","a","m","e">> >>],
     [fieldType |-> "father_name",
      patterns  |-> << <<"f","a","t","h","e","r","_","n","a","m","e">>,
                      <<"f","a","t","h","e","r","n","a","m","e">>,
                      <<"f","a","t","h","e","r">>,
                      <<"g","u","a","r","d","i","a","n","_","n","a","m","e">>,
                      <<"f","a","t","h","e","r","_","h","u","s","b","a","n","d">> >>],
     [fieldType |-> "aadhaar_number",
      patterns  |-> << <<"a","a","d","h","a","a","r">>,
                      <<"a","a","d","h","a","r">>,
                      <<"a","a","d","h","a","a","r","_","n","o">>,
                      <<"u","i","d">>,
                      <<"u","i","d","a","i">> >>],
     [fieldType |-> "pan_number",
      patterns  |-> << <<"p","a","n">>,
                      <<"p","a","n","_","n","o">>,
                      <<"p","a","n","c","a","r","d">>,
                      <<"p","a","n","_","n","u","m","b","e","r">> >>],
     [fieldType |-> "voter_id_number",
      patterns  |-> << <<"v","o","t","e","r","_","i","d">>,
                      <<"v","o","t","e","r","i","d">>,
                      <<"e","p","i","c">>,
                      <<"e","p","i","c","_","n","o">> >>],
     [fieldType |-> "date_of_birth",
      patterns  |-> << <<"d","o","b">>,
                      <<"d","a","t","e","_","o","f","_","b","i","r","t","h">>,
                      <<"d","a","t","e","o","f","b","i","r","t","h">>,
                      <<"b","i","r","t","h","_","d","a","t","e">>,
                      <<"b","i","r","t","h","d","a","t","e">> >>],
     [fieldType |-> "gender",
      patterns  |-> << <<"g","e","n","d","e","r">>,
                      <<"s","e","x">> >>],
     [fieldType |-> "address",
      patterns  |-> << <<"a","d","d","r","e","s","s">>,
                      <<"f","u","l","l","_","a","d","d","r","e","s","s">>,
                      <<"r","e","s","i","d","e","n","t","i","a","l","_","a","d","d","r","e","s","s">>,
                      <<"p","e","r","m","a","n","e","n","t","_","a","d","d","r","e","s","s">> >>],
     [fieldType |-> "mobile_number",
      patterns  |-> << <<"m","o","b","i","l","e">>,
                      <<"m","o","b","i","l","e","_","n","o">>,
                      <<"m","o","b","i","l","e","_","n","u","m","b","e","r">>,
                      <<"p","h","o","n","e">>,
                      <<"p","h","o","n","e","_","n","o">>,
                      <<"p","h","o","n","e","_","n","u","m","b","e","r">>,
                      <<"c","o","n","t","a","c","t">>,
                      <<"c","o","n","t","a","c","t","_","n","o">>,
                      <<"c","e","l","l">> >>],
     [fieldType |-> "email",
      patterns  |-> << <<"e","m","a","i","l">>,
                      <<"e","m","a","i","l","_","i","d">>,
                      <<"e","m","a","i","l","i","d">>,
                      <<"m","a","i","l">>,
                      <<"m","a","i","l","_","i","d">>,
                      <<"e","m","a","i","l","_","a","d","d","r","e","s","s">> >>],
     [fieldType |-> "community",
      patterns  |-> << <<"c","o","m","m","u","n","i","t","y">>,
                      <<"c","a","s","t","e">>,
                      <<"c","a","t","e","g","o","r","y">> >>],
     [fieldType |-> "annual_income",
      patterns  |-> << <<"i","n","c","o","m","e">>,
                      <<"a","n","n","u","a","l","_","i","n","c","o","m","e">>,
                      <<"y","e","a","r","l","y","_","i","n","c","o","m","e">> >>] >>

getFieldLabel(input) ==
  IF input.id # <<>> /\ input.forLabel # <<>> THEN trim(input.forLabel[1])
  ELSE IF input.parentLabel # <<>> THEN trim(input.parentLabel[1])
  ELSE IF input.prevLabel # <<>> THEN trim(input.prevLabel[1])
  ELSE <<>>

\* [name, id, placeholder, label, ariaLabel].filter(Boolean), lower-cased
Identifiers(input) ==
  SelectSeq(<< toLowerCase(input.name), toLowerCase(input.id),
               toLowerCase(input.placeholder), toLowerCase(getFieldLabel(input)),
               toLowerCase(input.ariaLabel) >>,
            LAMBDA s : s # <<>>)

\* line 156
PatternMatches(identifier, pattern) ==
  Includes(identifier, pattern) \/ Includes(pattern, identifier)

\* the table entries for which some (pattern, identifier) pair matches
MatchingTypes(identifiers) ==
  { t \in 1..Len(FIELD_MAPPING) :
      \E p \in 1..Len(FIELD_MAPPING[t].patterns), i \in 1..Len(identifiers) :
         PatternMatches(identifiers[i], FIELD_MAPPING[t].patterns[p]) }

\* an exclusion that lets hidden controls through
ExcludedType_NotHidden(input) == input.type \in {"submit", "button"}

\* lines 139-141
ExcludedType(input) == input.type \in {"hidden", "submit", "button"}

\* a classifier that returns the last table entry that has a match
identifyField_LastType(input) ==
  IF ExcludedType(input) THEN Null
  ELSE LET identifiers == Identifiers(input)
           hits        == MatchingTypes(identifiers)
           name        == toLowerCase(input.name)
           id          == toLowerCase(input.id)
           label       == toLowerCase(getFieldLabel(input))
           placeholder == toLowerCase(input.placeholder)
       IN IF hits = {} THEN Null
          ELSE [fieldType  |-> FIELD_MAPPING[CHOOSE t \in hits : \A u \in hits : t >= u].fieldType,
                identifier |-> OrElse(name, id),
                label      |-> OrElse(label, OrElse(placeholder, OrElse(name, id)))]

\* The three loops return at the first matching triple; the type loop is the
\* outermost, so the type returned is the first entry that has any match.
identifyField(input) ==
  IF ExcludedType(input) THEN Null
  ELSE LET identifiers == Identifiers(input)
           hits        == MatchingTypes(identifiers)
           name        == toLowerCase(input.name)
           id          == toLowerCase(input.id)
           label       == toLowerCase(getFieldLabel(input))
           placeholder == toLowerCase(input.placeholder)
       IN IF hits = {} THEN Null
          ELSE [fieldType  |-> FIELD_MAPPING[CHOOSE t \in hits : \A u \in hits : t <= u].fieldType,
                identifier |-> OrElse(name, id),
                label      |-> OrElse(label, OrElse(placeholder, OrElse(name, id)))]

----------------------------------------------------------------------------
(* Select purpose resolver and date heuristics, content.js:466-535 *)

\* lines 466-473
isDateField(element) ==
  LET name        == toLowerCase(element.name)
      id          == toLowerCase(element.id)
      placeholder == toLowerCase(element.placeholder)
  IN \/ Includes(name, <<"d","a","t","e">>) \/ Includes(name, <<"d","o","b">>)
     \/ Includes(id, <<"d","a","t","e">>) \/ Includes(id, <<"d","o","b">>)
     \/ Includes(placeholder, <<"d","a","t","e">>) \/ Includes(placeholder, <<"d","d">>)

\* lines 476-483
isDateRelatedSelect(element) ==
  LET name == toLowerCase(element.name)
      id   == toLowerCase(element.id)
  IN \E hint \in { <<"d","a","y">>, <<"m","o","n","t","h">>, <<"y","e","a","r">>, <<"d","a","t","e">>, <<"d","o","b">> } :
        Includes(name, hint) \/ Includes(id, hint)

\* /^(jan|feb|...|dec)/i.test(v)
StartsWithMonthName(v) ==
  \E m \in 1..Len(monthNames) :
     Len(v) >= 3 /\ toLowerCase(SubSeq(v, 1, 3)) = toLowerCase(monthNames[m])

SeqMax(q) == CHOOSE x \in { q[i] : i \in 1..Len(q) } : \A i \in 1..Len(q) : q[i] <= x

\* lines 494-508: the purpose read from the options
PurposeFromOptions(options) ==
  LET values        == [i \in 1..Len(options) |-> OrElse(options[i].value, options[i].text)]
      hasMonthNames == \E i \in 1..Len(values) : StartsWithMonthName(values[i])
      numericStrs   == SelectSeq(values, LAMBDA v : v # <<>> /\ AllDigits(v))
      numericValues == [i \in 1..Len(numericStrs) |-> parseInt(numericStrs[i]).n]
  IN IF hasMonthNames THEN "month"
     ELSE IF Len(numericValues) > 0
       THEN LET max == SeqMax(numericValues)
            IN IF max <= 31 /\ max >= 28 THEN "day"
               ELSE IF max = 12 \/ (max <= 12 /\ Len(numericValues) <= 13) THEN "month"
               ELSE IF max > 1900 THEN "year"
               ELSE "null"
     ELSE "null"

\* lines 486-509
detectSelectPurpose(element, options) ==
  LET name == toLowerCase(element.name)
      id   == toLowerCase(element.id)
  IN IF Includes(name, <<"d","a","y">>) \/ Includes(id, <<"d","a","y">>) \/ Includes(name, <<"d","d">>) THEN "day"
     ELSE IF Includes(name, <<"m","o","n","t","h">>) \/ Includes(id, <<"m","o","n","t","h">>) \/ Includes(name, <<"m","m">>)
       THEN "month"
     ELSE IF \/ Includes(name, <<"y","e","a","r">>) \/ Includes(id, <<"y","e","a","r">>)
             \/ Includes(name, <<"y","y","y","y">>) \/ Includes(name, <<"y","y">>)
       THEN "year"
     ELSE PurposeFromOptions(options)

\* lines 512-535
detectDateFormat(element) ==
  LET placeholder == toLowerCase(element.placeholder)
  IN IF Includes(placeholder, <<"d","d","-","m","m","m","-","y","y","y","y">>) \/ Includes(placeholder, <<"d","d","-","m","o","n","-","y","y","y","y">>)
       THEN "DD-Mon-YYYY"
     ELSE IF Includes(placeholder, <<"d","d","/","m","m","/","y","y","y","y">>) THEN "DD/MM/YYYY"
     ELSE IF Includes(placeholder, <<"d","d","-","m","m","-","y","y","y","y">>) THEN "DD-MM-YYYY"
     ELSE IF Includes(placeholder, <<"m","m","/","d","d","/","y","y","y","y">>) THEN "MM/DD/YYYY"
     ELSE IF Includes(placeholder, <<"y","y","y","y","-","m","m","-","d","d">>) THEN "YYYY-MM-DD"
     ELSE "DD/MM/YYYY"

----------------------------------------------------------------------------
(* Value writer: fillField, content.js:324-408                             *)
(* FillOutcome gives what one call does to the control: whether it assigns *)
(* element.value and what, whether it sets element.checked, and the events *)
(* it dispatches on the control, in order.                                 *)

\* options.find(test): the index of the first option that passes, 0 if none
FindOption(options, Test(_)) ==
  LET hits == { i \in 1..Len(options) : Test(options[i]) }
  IN IF hits = {} THEN 0 ELSE CHOOSE i \in hits : \A j \in hits : i <= j

Outcome(assigns, value, checks, events) ==
  [assigns |-> assigns, value |-> value, checks |-> checks, events |-> events]

\* if (match) element.value = match.value
SelectOutcome(options, k, events) ==
  IF k = 0 THEN Outcome(FALSE, <<>>, FALSE, events)
  ELSE Outcome(TRUE, options[k].value, FALSE, events)

\* lines 336, 351: an option whose value or text is the number n
NumberOption(opt, n) == ParseIntIs(opt.value, n) \/ ParseIntIs(opt.text, n)

\* lines 341-348
MonthOption(opt, month) ==
  LET val  == toLowerCase(opt.value)
      txt  == toLowerCase(opt.text)
      abbr == toLowerCase(MonthNameOf(month))
  IN \/ ParseIntIs(opt.value, month)
     \/ ParseIntIs(opt.text, month)
     \/ Includes(val, abbr)
     \/ Includes(txt, abbr)

\* lines 355-358, 367-370
RawOption(opt, value) ==
  toLowerCase(opt.value) = toLowerCase(value) \/ toLowerCase(opt.text) = toLowerCase(value)

\* the date branch without the purpose: every select matched on the raw value
FillDateSelect_RawOnly(element, value, dateVal) ==
  SelectOutcome(element.options,
                FindOption(element.options, LAMBDA opt : RawOption(opt, value)),
                <<"change">>)

\* lines 333-362: a date-related select and a value that parsed
FillDateSelect(element, value, dateVal) ==
  LET options       == element.options
      selectPurpose == detectSelectPurpose(element, options)
      k == CASE selectPurpose = "day" ->
                  FindOption(options, LAMBDA opt : NumberOption(opt, dateVal.day))
             [] selectPurpose = "month" ->
                  FindOption(options, LAMBDA opt : MonthOption(opt, dateVal.month))
             [] selectPurpose = "year" ->
                  FindOption(options, LAMBDA opt : NumberOption(opt, dateVal.year))
             [] OTHER ->
                  FindOption(options, LAMBDA opt : RawOption(opt, value))
  IN SelectOutcome(options, k, <<"change">>)

\* lines 389-402: a text control
TextValue(element, value, fieldType) ==
  IF fieldType = "date_of_birth" \/ isDateField(element)
  THEN LET dateVal == parseDate(value)
       IN IF dateVal # Null
          THEN formatDateToExpected(dateVal, detectDateFormat(element))
          ELSE value
  ELSE value

\* line 383
NativeDateValue(value) ==
  LET dateVal == parseDate(value)
  IN IF dateVal # Null
     THEN NumToStr(dateVal.year) \o <<"-">> \o PadStart2(NumToStr(dateVal.month))
            \o <<"-">> \o PadStart2(NumToStr(dateVal.day))
     ELSE value

\* fillField(element, value, fieldType); fieldType is "null" when not passed.
\* The value recorded for a control is the string the source assigns to it;
\* element.value of a radio or checkbox is its value attribute.
FillOutcome(element, value, fieldType) ==
  IF /\ element.tag = "SELECT"
     /\ (fieldType = "date_of_birth" \/ isDateRelatedSelect(element))
     /\ parseDate(value) # Null
  THEN FillDateSelect(element, value, parseDate(value))
  ELSE
    LET events == <<"input", "change">>
    IN IF element.tag = "SELECT"
       THEN SelectOutcome(element.options,
                          FindOption(element.options, LAMBDA opt : RawOption(opt, value)),
                          events)
       ELSE IF element.type \in {"radio", "checkbox"}
       THEN Outcome(FALSE, <<>>, toLowerCase(element.value) = toLowerCase(value), events)
       ELSE IF element.type = "date"
       THEN Outcome(TRUE, NativeDateValue(value), FALSE, events)
       ELSE Outcome(TRUE, TextValue(element, value, fieldType), FALSE, events)

----------------------------------------------------------------------------
(* The page: a catalogue of the controls a page can hold.  Form 1 is the   *)
(* page of the end-to-end scenario plus an Aadhaar field, a hidden field   *)
(* and a submit control; each further form, added by a page script, holds  *)
(* an e-mail field and a submit control.                                   *)

NumForms == 2

Forms == 1..NumForms

Control(tag, type, name, id, form) ==
  [tag |-> tag, type |-> type, name |-> name, id |-> id, placeholder |-> <<>>,
   ariaLabel |-> <<>>, forLabel |-> <<>>, parentLabel |-> <<>>, prevLabel |-> <<>>,
   options |-> <<>>, value |-> <<>>, form |-> form, formAttr |-> 0]

DayOptions ==
  << [value |-> <<"1">>, text |-> <<"1">>],
     [value |-> <<"2">>, text |-> <<"2">>],
     [value |-> <<"3">>, text |-> <<"3">>],
     [value |-> <<"4">>, text |-> <<"4">>],
     [value |-> <<"5">>, text |-> <<"5">>],
     [value |-> <<"6">>, text |-> <<"6">>],
     [value |-> <<"7">>, text |-> <<"7">>],
     [value |-> <<"8">>, text |-> <<"8">>],
     [value |-> <<"9">>, text |-> <<"9">>],
     [value |-> <<"1","0">>, text |-> <<"1","0">>],
     [value |-> <<"1","1">>, text |-> <<"1","1">>],
     [value |-> <<"1","2">>, text |-> <<"1","2">>],
     [value |-> <<"1","3">>, text |-> <<"1","3">>],
     [value |-> <<"1","4">>, text |-> <<"1","4">>],
     [value |-> <<"1","5">>, text |-> <<"1","5">>],
     [value |-> <<"1","6">>, text |-> <<"1","6">>],
     [value |-> <<"1","7">>, text |-> <<"1","7">>],
     [value |-> <<"1","8">>, text |-> <<"1","8">>],
     [value |-> <<"1","9">>, text |-> <<"1","9">>],
     [value |-> <<"2","0">>, text |-> <<"2","0">>],
     [value |-> <<"2","1">>, text |-> <<"2","1">>],
     [value |-> <<"2","2">>, text |-> <<"2","2">>],
     [value |-> <<"2","3">>, text |-> <<"2","3">>],
     [value |-> <<"2","4">>, text |-> <<"2","4">>],
     [value |-> <<"2","5">>, text |-> <<"2","5">>],
     [value |-> <<"2","6">>, text |-> <<"2","6">>],
     [value |-> <<"2","7">>, text |-> <<"2","7">>],
     [value |-> <<"2","8">>, text |-> <<"2","8">>],
     [value |-> <<"2","9">>, text |-> <<"2","9">>],
     [value |-> <<"3","0">>, text |-> <<"3","0">>],
     [value |-> <<"3","1">>, text |-> <<"3","1">>] >>

MonthOptions == [i \in 1..Len(monthNames) |-> [value |-> monthNames[i], text |-> monthNames[i]]]

BaseControls ==
  << [Control("SELECT", "select-one", <<"d","o","b","_","d","a","y">>, <<>>, 1)
        EXCEPT !.options = DayOptions],
     [Control("SELECT", "select-one", <<"d","o","b","_","m","o","n","t","h">>, <<>>, 1)
        EXCEPT !.options = MonthOptions],
     Control("INPUT", "text", <<"d","o","b","_","y","e","a","r">>, <<>>, 1),
     Control("INPUT", "text", <<"a","a","d","h","a","r","_","n","o">>, <<>>, 1),
     Control("INPUT", "hidden", <<"d","o","b">>, <<>>, 1),
     Control("INPUT", "submit", <<>>, <<>>, 1),
     Control("TEXTAREA", "textarea", <<"a","d","d","r","e","s","s">>, <<>>, 0),
     [Control("INPUT", "checkbox", <<>>, <<"c","o","n","s","e","n","t","-","c","h","e","c","k">>, 0)
        EXCEPT !.value = <<"o","n">>,
               !.forLabel = << <<"I"," ","c","o","n","s","e","n","t"," ","t","o"," ","a","u","t","o","f","i","l","l","i","n","g"," ","t","h","i","s"," ","f","o","r","m"," ","w","i","t","h"," ","m","y"," ","v","e","r","i","f","i","e","d"," ","d","a","t","a">> >>] >>

\* the checkbox of the consent panel (content.js:263)
ConsentCheck == Len(BaseControls)

\* the controls of a form that a page script adds
AddedControls(f) ==
  << Control("INPUT", "text", <<"e","m","a","i","l">>, <<>>, f),
     Control("INPUT", "submit", <<>>, <<>>, f) >>

RECURSIVE AddedUpTo(_)
AddedUpTo(f) == IF f < 2 THEN <<>> ELSE AddedUpTo(f - 1) \o AddedControls(f)

Controls == BaseControls \o AddedUpTo(NumForms)

ControlIds == DOMAIN Controls

\* identifyField of every control of the catalogue
Classified == [c \in ControlIds |-> identifyField(Controls[c])]

----------------------------------------------------------------------------
(* Autofill session controller, content.js:46-135, 191-321, 561-708        *)
(*                                                                         *)
(* autofillData (line 48) is written at line 276 and read nowhere; the     *)
(* notification element (lines 675-686) is written and never read: what a  *)
(* handler showed is recorded with the handler in lastOp.                  *)

MaxPending == 1

MaxTimers == 2

IdSeq == [c \in 1..Len(Controls) |-> c]

\* whether control c is in the document
InDocument(c, forms, consentOpen) ==
  IF c = ConsentCheck THEN consentOpen
  ELSE Controls[c].form = 0 \/ Controls[c].form \in forms

\* button[type="submit"], input[type="submit"] (line 575)
IsSubmitControl(c) == Controls[c].type = "submit" /\ Controls[c].tag \in {"BUTTON", "INPUT"}

\* the form a submit control submits: its ancestor form, else its form attribute
FormOwner(c) == IF Controls[c].form # 0 THEN Controls[c].form ELSE Controls[c].formAttr

\* form.querySelectorAll('input, select, textarea') (line 104)
FormInputs(f) ==
  SelectSeq(IdSeq, LAMBDA c : Controls[c].form = f
                              /\ Controls[c].tag \in {"INPUT", "SELECT", "TEXTAREA"})

\* 'input:not(form input), select:not(form select)' (line 118)
StandaloneInputs(consentOpen) ==
  SelectSeq(IdSeq, LAMBDA c : /\ Controls[c].form = 0
                              /\ Controls[c].tag \in {"INPUT", "SELECT"}
                              /\ InDocument(c, {}, consentOpen))

RECURSIVE FormsInputs(_, _)
FormsInputs(f, forms) ==
  IF f > NumForms THEN <<>>
  ELSE (IF f \in forms THEN FormInputs(f) ELSE <<>>) \o FormsInputs(f + 1, forms)

\* the controls detectForms visits, in the order it visits them
VisitOrder(forms, consentOpen) == FormsInputs(1, forms) \o StandaloneInputs(consentOpen)

\* lines 107-113, 120-126: { element: input, ...fieldInfo }
DetectedEntry(c) ==
  [element |-> c, fieldType |-> Classified[c].fieldType,
   identifier |-> Classified[c].identifier, label |-> Classified[c].label]

\* the detectedFields a detection pass leaves (lines 100-127)
Detect(forms, consentOpen) ==
  LET hits == SelectSeq(VisitOrder(forms, consentOpen), LAMBDA c : Classified[c] # Null)
  IN [i \in 1..Len(hits) |-> DetectedEntry(hits[i])]

\* the result of a detection pass for every document the catalogue allows
Detected == [forms \in SUBSET Forms, open \in BOOLEAN |-> Detect(forms, open)]

\* detectedFields.map(f => f.fieldType)
FieldTypes(fields) == [i \in 1..Len(fields) |-> fields[i].fieldType]

\* [...new Set(q)]: q without repeats, first occurrences kept
RECURSIVE Unique(_)
Unique(q) ==
  IF q = <<>> THEN <<>>
  ELSE LET init == Unique(SubSeq(q, 1, Len(q) - 1))
           last == q[Len(q)]
       IN IF \E i \in 1..Len(init) : init[i] = last THEN init ELSE Append(init, last)

(* The data of a response or of an AUTOFILL_FORM message: an object, given *)
(* by the sequence of its <<key, value>> entries, or undefined.             *)

Obj(entries) == [defined |-> TRUE, entries |-> entries]

UndefinedData == [defined |-> FALSE, entries |-> <<>>]

StoredDate == <<"1","5","/","0","8","/","1","9","9","5">>

StoredAadhaar == <<"1","2","3","4","5","6","7","8","9","0","1","2">>

DataMaps ==
  { <<>>,
    << <<"date_of_birth", StoredDate>>, <<"aadhaar_number", StoredAadhaar>> >> }

\* Object.keys(data)
Keys(entries) == [i \in 1..Len(entries) |-> entries[i][1]]

\* data[key]; the empty string stands for undefined (both are falsy)
Lookup(entries, key) ==
  IF \E i \in 1..Len(entries) : entries[i][1] = key
  THEN entries[CHOOSE i \in 1..Len(entries) : entries[i][1] = key][2]
  ELSE <<>>

NoPopup == [open |-> FALSE, data |-> <<>>, checked |-> FALSE]

NoVerify == [open |-> FALSE, tag |-> "none", target |-> 0]

NoNotice == [message |-> "none", type |-> "none", count |-> 0]

\* showNotification(message, type)
Notice(message, type) == [message |-> message, type |-> type, count |-> 0]

\* what lastOp records of a handler run: its name, the form the browser or the
\* handler submitted (0: none), the LOG_CONSENT action it sent, whether it
\* cancelled a submission, whether it ended by an uncaught exception, the
\* notification it showed and the field types it sent in GET_AUTOFILL_DATA
Op(name) ==
  [op |-> name, submitted |-> 0, log |-> "none", intercepted |-> FALSE,
   threw |-> FALSE, notice |-> NoNotice, sent |-> <<>>]

InitialCtl ==
  [c \in ControlIds |->
     [value |-> IF Controls[c].options # <<>> THEN Controls[c].options[1].value
                ELSE Controls[c].value,
      checked |-> FALSE, events |-> <<>>, highlighted |-> FALSE]]

\* the state once init() has run on an https page: one detection timer is
\* pending (line 60), the message listener and the mutation observer are set
InitSession ==
  /\ pageForms = {1}
  /\ ctl = InitialCtl
  /\ detectedFields = <<>>
  /\ isAutofillActive = FALSE
  /\ buttonShown = FALSE
  /\ consentPopup = NoPopup
  /\ verifyPopup = NoVerify
  /\ formListeners = {}
  /\ btnListeners = {}
  /\ pendingRequests = 0
  /\ pendingDetect = 1
  /\ consentObserved = FALSE
  /\ lastOp = Op("init")

(* observeDOMChanges, content.js:689-708.  A handler's insertions reach the *)
(* observer as one batch; a node is given by its tag and the tags of its   *)
(* descendants.                                                            *)

\* the button of showAutofillButton (lines 197-208)
AutofillButtonNode == [tagName |-> "BUTTON", inner |-> {"svg", "path", "span"}]

\* the panel of showConsentPopup (lines 237-271)
ConsentPopupNode ==
  [tagName |-> "DIV", inner |-> {"div", "h3", "button", "p", "label", "span", "input"}]

\* the panel of showSubmissionVerification (lines 608-631)
VerifyPopupNode ==
  [tagName |-> "DIV", inner |-> {"div", "h3", "p", "strong", "label", "span", "button"}]

\* the element of showNotification (lines 679-683)
NotificationNode == [tagName |-> "DIV", inner |-> {}]

\* a form inserted by a page script
PageFormNode == [tagName |-> "FORM", inner |-> {"input", "select"}]

\* an observer that takes every added element for a new form
hasNewForms_AnyElement(addedNodes) == addedNodes # {}

\* lines 691-700: node.tagName === 'FORM' || node.querySelector('form, input')
hasNewForms(addedNodes) ==
  \E node \in addedNodes : node.tagName = "FORM" \/ node.inner \cap {"form", "input"} # {}

\* lines 702-704: the timers one batch of added nodes starts
Scheduled(addedNodes) == IF hasNewForms(addedNodes) THEN 1 ELSE 0

(* detectForms, content.js:99-135 *)

\* the nodes a detection pass inserts (lines 129-131)
AddedByDetection ==
  IF Len(Detected[pageForms, consentPopup.open]) > 0 THEN {AutofillButtonNode} ELSE {}

\* the assignments of one detection pass
DetectForms ==
  /\ detectedFields' = Detected[pageForms, consentPopup.open]
  /\ buttonShown' = (buttonShown \/ Len(detectedFields') > 0)

\* the timer of line 60 or of line 703 fires
DetectTimerFires ==
  /\ pendingDetect > 0
  /\ pendingDetect' = pendingDetect - 1 + Scheduled(AddedByDetection)
  /\ DetectForms
  /\ lastOp' = Op("detectTimer")
  /\ UNCHANGED <<pageVars, isAutofillActive, consentPopup, verifyPopup,
                 formListeners, btnListeners, pendingRequests, consentObserved>>

\* handleMessage, case 'DETECT_FORMS' (lines 72-75)
MsgDetectForms ==
  /\ DetectForms
  /\ pendingDetect' = pendingDetect + Scheduled(AddedByDetection)
  /\ lastOp' = Op("DETECT_FORMS")
  /\ UNCHANGED <<pageVars, isAutofillActive, consentPopup, verifyPopup,
                 formListeners, btnListeners, pendingRequests, consentObserved>>

\* A page script inserts form f; the mutation observer (lines 690-705) sees a
\* FORM node among the added nodes and schedules a detection pass.
PageAddsForm(f) ==
  /\ f \notin pageForms
  /\ pendingDetect < MaxTimers
  /\ pageForms' = pageForms \cup {f}
  /\ pendingDetect' = pendingDetect + Scheduled({PageFormNode})
  /\ lastOp' = Op("pageAddsForm")
  /\ UNCHANGED <<ctl, detectedFields, isAutofillActive, buttonShown,
                 consentPopup, verifyPopup, formListeners, btnListeners,
                 pendingRequests, consentObserved>>

\* A page script takes form f out of the document.  The mutation observer
\* reads addedNodes only (lines 692-699), so no detection pass is scheduled;
\* the element keeps its listeners and its controls keep their values.
PageRemovesForm(f) ==
  /\ f \in pageForms
  /\ pageForms' = pageForms \ {f}
  /\ lastOp' = Op("pageRemovesForm")
  /\ UNCHANGED <<ctl, engineVars, consentObserved>>

(* handleAutofillClick and showConsentPopup, content.js:212-289 *)

\* a failure notice that drops the response's error text
FailureNotice_Generic(response) == Notice("Failed to get autofill data", "error")

\* line 227: response.error || 'Failed to get autofill data'
FailureNotice(response) ==
  Notice(IF response.error # "" THEN response.error ELSE "Failed to get autofill data",
         "error")

\* lines 212-221: the request is sent; its callback runs in ResponseArrives
ClickAutofillButton ==
  /\ buttonShown
  /\ pendingRequests < MaxPending
  /\ pendingRequests' = pendingRequests + 1
  /\ lastOp' = [Op("autofillClick") EXCEPT !.sent = Unique(FieldTypes(detectedFields))]
  /\ UNCHANGED <<pageVars, detectedFields, isAutofillActive, buttonShown,
                 consentPopup, verifyPopup, formListeners, btnListeners,
                 pendingDetect, consentObserved>>

\* what the callback of line 222 can be handed: undefined (no reply: the
\* extension context is gone), a success with data.fields, a success whose data
\* has no fields property, a failure with or without an error text
Responses ==
  { [kind |-> "undefined", entries |-> <<>>, error |-> ""],
    [kind |-> "okNoFields", entries |-> <<>>, error |-> ""],
    [kind |-> "fail", entries |-> <<>>, error |-> "Not authenticated"],
    [kind |-> "fail", entries |-> <<>>, error |-> ""] }
  \cup [kind : {"ok"}, entries : DataMaps, error : {""}]

\* the callback of lines 222-228, with showConsentPopup (lines 232-276)
ResponseArrives(response) ==
  /\ pendingRequests > 0
  /\ pendingRequests' = pendingRequests - 1
  /\ CASE response.kind = "undefined" ->
            \* response.success: TypeError
            /\ lastOp' = [Op("response") EXCEPT !.threw = TRUE]
            /\ UNCHANGED <<consentPopup, pendingDetect>>
       [] response.kind = "okNoFields" ->
            \* showConsentPopup(undefined): the old panel is removed (line 235),
            \* then Object.entries(undefined) at line 243: TypeError
            /\ consentPopup' = NoPopup
            /\ lastOp' = [Op("response") EXCEPT !.threw = TRUE]
            /\ UNCHANGED pendingDetect
       [] response.kind = "ok" ->
            \* the panel holds an input element, so its insertion makes the
            \* mutation observer schedule a detection pass
            /\ pendingDetect < MaxTimers
            /\ consentPopup' = [open |-> TRUE, data |-> response.entries, checked |-> FALSE]
            /\ pendingDetect' = pendingDetect + Scheduled({ConsentPopupNode})
            /\ lastOp' = Op("response")
       [] response.kind = "fail" ->
            /\ lastOp' = [Op("response") EXCEPT !.notice = FailureNotice(response)]
            /\ pendingDetect' = pendingDetect + Scheduled({NotificationNode})
            /\ UNCHANGED consentPopup
  /\ UNCHANGED <<pageVars, detectedFields, isAutofillActive, buttonShown, verifyPopup,
                 formListeners, btnListeners, consentObserved>>

\* the user ticks or unticks #consent-check
UserTogglesConsent ==
  /\ consentPopup.open
  /\ consentPopup' = [consentPopup EXCEPT !.checked = ~@]
  /\ lastOp' = Op("toggleConsent")
  /\ UNCHANGED <<pageVars, detectedFields, isAutofillActive, buttonShown,
                 verifyPopup, formListeners, btnListeners, pendingRequests,
                 pendingDetect, consentObserved>>

\* the close and Cancel buttons of the consent panel (lines 255, 268)
UserClosesConsent ==
  /\ consentPopup.open
  /\ consentPopup' = NoPopup
  /\ lastOp' = Op("closeConsent")
  /\ UNCHANGED <<pageVars, detectedFields, isAutofillActive, buttonShown,
                 verifyPopup, formListeners, btnListeners, pendingRequests,
                 pendingDetect, consentObserved>>

(* performAutofill, content.js:292-321, with highlightField and addSubmitInterceptor *)

\* the values the session hands to fillField
\* a date of birth stored in a form parseDate does not read, and an e-mail
UnparsedDate == <<"1","5"," ","A","u","g"," ","1","9","9","5">>

StoredEmail == <<"a","@","b",".","i","n">>

FillValues == {StoredDate, StoredAadhaar, UnparsedDate, StoredEmail}

\* the field types the session hands to fillField; applyVoiceInput passes none
FillTypes == { Classified[c].fieldType : c \in { d \in ControlIds : Classified[d] # Null } }
             \cup {"undefined"}

\* fillField on every control of the catalogue
Filled ==
  [c \in ControlIds, value \in FillValues, fieldType \in FillTypes |->
     FillOutcome(Controls[c], value, fieldType)]

\* fillField then highlightField on control c (lines 298-299, 668-669)
FillOne(state, c, value, fieldType) ==
  LET o == Filled[c, value, fieldType]
  IN [state EXCEPT ![c] =
        [value       |-> IF o.assigns THEN o.value ELSE state[c].value,
         checked     |-> state[c].checked \/ o.checks,
         events      |-> o.events,
         highlighted |-> TRUE]]

\* lines 295-302
RECURSIVE FillAll(_, _, _)
FillAll(fields, entries, state) ==
  IF fields = <<>> THEN state
  ELSE LET field == Head(fields)
           value == Lookup(entries, field.fieldType)
       IN FillAll(Tail(fields), entries,
                  IF value # <<>> THEN FillOne(state, field.element, value, field.fieldType)
                  ELSE state)

\* filledCount
FilledCount(fields, entries) ==
  Cardinality({ i \in 1..Len(fields) : Lookup(entries, fields[i].fieldType) # <<>> })

\* an interceptor that is attached to no form
InterceptedForms_None(forms) == {}

\* the forms addSubmitInterceptor attaches the submit listener to (lines 570-572)
InterceptedForms(forms) == forms

\* the controls addSubmitInterceptor attaches the click listener to (lines 575-577)
InterceptedControls(forms, consentOpen) ==
  { c \in ControlIds : IsSubmitControl(c) /\ InDocument(c, forms, consentOpen) }

\* performAutofill(data), run by the handler that op describes
PerformAutofill(data, op) ==
  IF ~data.defined /\ detectedFields # <<>>
  THEN \* data[field.fieldType] at line 296: TypeError
       /\ lastOp' = [op EXCEPT !.threw = TRUE]
       /\ UNCHANGED <<ctl, isAutofillActive, formListeners, btnListeners, pendingDetect>>
  ELSE /\ ctl' = FillAll(detectedFields, data.entries, ctl)
       /\ isAutofillActive' = TRUE
       /\ pendingDetect' = pendingDetect + Scheduled({NotificationNode})
       /\ formListeners' = formListeners \cup InterceptedForms(pageForms)
       /\ btnListeners' = btnListeners \cup InterceptedControls(pageForms, consentPopup.open)
       /\ lastOp' =
            LET shown == [op EXCEPT !.notice =
                            [message |-> "Filled N fields. Please review before submitting.",
                             type |-> "success",
                             count |-> FilledCount(detectedFields, data.entries)]]
            IN IF data.defined THEN [shown EXCEPT !.log = "autofill_request"]
               ELSE \* Object.keys(undefined) at line 318: TypeError
                    [shown EXCEPT !.threw = TRUE]

\* whether the confirm handler goes on to fill (lines 280-284)
ConsentGiven(popup) == popup.checked

\* the confirm button of the consent panel (lines 279-288)
UserConfirmsConsent ==
  /\ consentPopup.open
  /\ IF ~ConsentGiven(consentPopup)
     THEN /\ lastOp' = [Op("confirmConsent") EXCEPT
                          !.notice = Notice("Please provide consent to continue", "warning")]
          /\ pendingDetect' = pendingDetect + Scheduled({NotificationNode})
          /\ UNCHANGED <<ctl, isAutofillActive, formListeners, btnListeners,
                         consentPopup, consentObserved>>
     ELSE /\ consentPopup' = NoPopup
          /\ consentObserved' = consentPopup.checked
          /\ PerformAutofill(Obj(consentPopup.data), Op("confirmConsent"))
  /\ UNCHANGED <<pageForms, detectedFields, buttonShown, verifyPopup, pendingRequests>>

(* handleMessage, content.js:70-96, and applyVoiceInput, content.js:665-672 *)

\* message.payload of an AUTOFILL_FORM message: absent, or an object whose
\* data is an object or is missing
AutofillPayloads ==
  { [present |-> FALSE, data |-> UndefinedData], [present |-> TRUE, data |-> UndefinedData] }
  \cup { [present |-> TRUE, data |-> Obj(e)] : e \in DataMaps }

\* case 'AUTOFILL_FORM' (lines 77-80)
MsgAutofillForm(payload) ==
  /\ IF ~payload.present
     THEN \* message.payload.data: TypeError
          /\ lastOp' = [Op("AUTOFILL_FORM") EXCEPT !.threw = TRUE]
          /\ UNCHANGED <<ctl, isAutofillActive, formListeners, btnListeners, pendingDetect>>
     ELSE PerformAutofill(payload.data, Op("AUTOFILL_FORM"))
  /\ UNCHANGED <<pageForms, detectedFields, buttonShown, consentPopup,
                 verifyPopup, pendingRequests, consentObserved>>

\* case 'SHOW_PREVIEW' (lines 82-85): showPreviewPopup is defined nowhere in
\* the script, so the call raises a ReferenceError
MsgShowPreview ==
  /\ lastOp' = [Op("SHOW_PREVIEW") EXCEPT !.threw = TRUE]
  /\ UNCHANGED <<pageVars, engineVars, consentObserved>>

\* message.payload of an APPLY_VOICE_INPUT message
VoicePayloads ==
  { [present |-> FALSE, fieldType |-> "none", value |-> <<>>] }
  \cup [present : {TRUE}, fieldType : {"date_of_birth", "gender"}, value : {StoredDate}]

\* detectedFields.find(f => f.fieldType === fieldType): its index, 0 if none
FindField(fields, fieldType) ==
  LET hits == { i \in 1..Len(fields) : fields[i].fieldType = fieldType }
  IN IF hits = {} THEN 0 ELSE CHOOSE i \in hits : \A j \in hits : i <= j

\* case 'APPLY_VOICE_INPUT' (lines 87-90)
MsgApplyVoiceInput(payload) ==
  /\ IF ~payload.present
     THEN \* destructuring undefined at line 665: TypeError
          /\ lastOp' = [Op("APPLY_VOICE_INPUT") EXCEPT !.threw = TRUE]
          /\ UNCHANGED <<ctl, pendingDetect>>
     ELSE LET k == FindField(detectedFields, payload.fieldType)
          IN IF k = 0
             THEN /\ lastOp' = Op("APPLY_VOICE_INPUT")
                  /\ UNCHANGED <<ctl, pendingDetect>>
             ELSE /\ ctl' = FillOne(ctl, detectedFields[k].element, payload.value, "undefined")
                  /\ pendingDetect' = pendingDetect + Scheduled({NotificationNode})
                  /\ lastOp' = [Op("APPLY_VOICE_INPUT") EXCEPT
                                  !.notice = Notice("Voice input applied", "success")]
  /\ UNCHANGED <<pageForms, detectedFields, isAutofillActive, buttonShown, consentPopup,
                 verifyPopup, formListeners, btnListeners, pendingRequests, consentObserved>>

\* the default case (lines 92-93)
MsgUnknown ==
  /\ lastOp' = Op("unknownMessage")
  /\ UNCHANGED <<pageVars, engineVars, consentObserved>>

(* Submission: handleFormSubmit and showSubmissionVerification, content.js:581-662 *)

\* line 582 for a listener attached to target x
Intercepts(x, listeners) == x \in listeners /\ isAutofillActive

\* A submit event reaches form f.  With the listener attached and the flag set
\* the event is cancelled and the verification panel opens for the form (lines
\* 584-587, 592-631); otherwise the browser submits the form.
SubmitEventOn(f, op) ==
  IF Intercepts(f, formListeners)
  THEN /\ verifyPopup' = [open |-> TRUE, tag |-> "FORM", target |-> f]
       /\ pendingDetect' = pendingDetect + Scheduled({VerifyPopupNode})
       /\ lastOp' = [op EXCEPT !.intercepted = TRUE]
  ELSE /\ lastOp' = [op EXCEPT !.submitted = f]
       /\ UNCHANGED <<verifyPopup, pendingDetect>>

\* the user submits form f without clicking a submit control of the selector
\* of line 575 (the Enter key in a field, a <button> without type attribute)
UserSubmitsForm(f) ==
  /\ f \in pageForms
  /\ SubmitEventOn(f, Op("submitEvent"))
  /\ UNCHANGED <<pageVars, detectedFields, isAutofillActive, buttonShown,
                 consentPopup, formListeners, btnListeners, pendingRequests,
                 consentObserved>>

\* the user clicks submit control b: the click listener, when attached and the
\* flag is set, cancels the click and opens the panel for the control;
\* otherwise the click's activation behaviour fires submit at the owner form
UserClicksSubmit(b) ==
  /\ IsSubmitControl(b)
  /\ InDocument(b, pageForms, consentPopup.open)
  /\ IF Intercepts(b, btnListeners)
     THEN /\ verifyPopup' = [open |-> TRUE, tag |-> Controls[b].tag, target |-> b]
          /\ pendingDetect' = pendingDetect + Scheduled({VerifyPopupNode})
          /\ lastOp' = [Op("submitClick") EXCEPT !.intercepted = TRUE]
     ELSE IF FormOwner(b) \in pageForms
     THEN SubmitEventOn(FormOwner(b), Op("submitClick"))
     ELSE /\ lastOp' = Op("submitClick")
          /\ UNCHANGED <<verifyPopup, pendingDetect>>
  /\ UNCHANGED <<pageVars, detectedFields, isAutofillActive, buttonShown,
                 consentPopup, formListeners, btnListeners, pendingRequests,
                 consentObserved>>

\* a cancel handler that also cleared the flag
VerifyCancel_ClearsFlag ==
  /\ verifyPopup.open
  /\ verifyPopup' = NoVerify
  /\ isAutofillActive' = FALSE
  /\ lastOp' = Op("verifyCancel")
  /\ UNCHANGED <<pageVars, detectedFields, buttonShown,
                 consentPopup, formListeners, btnListeners, pendingRequests,
                 pendingDetect, consentObserved>>

\* "Go Back & Edit" (lines 634-636)
VerifyCancel ==
  /\ verifyPopup.open
  /\ verifyPopup' = NoVerify
  /\ lastOp' = Op("verifyCancel")
  /\ UNCHANGED <<pageVars, detectedFields, isAutofillActive, buttonShown,
                 consentPopup, formListeners, btnListeners, pendingRequests,
                 pendingDetect, consentObserved>>

\* form.closest('form') of the event target of a click: its ancestor form, 0 if none
ClosestForm(c) == Controls[c].form

\* the submit listeners left after lines 655-660
ListenersAfterConfirm(popup, listeners) ==
  IF popup.tag = "FORM" THEN listeners \ {popup.target} ELSE listeners

\* the form lines 655-660 call submit() on, 0 if none
SubmittedOnConfirm(popup) ==
  IF popup.tag = "FORM" THEN popup.target ELSE ClosestForm(popup.target)

\* form.submit() navigates only for a form that is in the document
Navigated(f, forms) == IF f \in forms THEN f ELSE 0

\* "Confirm & Submit" (lines 639-661)
VerifyConfirm ==
  /\ verifyPopup.open
  /\ verifyPopup' = NoVerify
  /\ isAutofillActive' = FALSE
  /\ formListeners' = ListenersAfterConfirm(verifyPopup, formListeners)
  /\ lastOp' = [Op("verifyConfirm") EXCEPT
                  !.log = "form_submission",
                  !.submitted = Navigated(SubmittedOnConfirm(verifyPopup), pageForms)]
  /\ UNCHANGED <<pageVars, detectedFields, buttonShown, consentPopup,
                 btnListeners, pendingRequests, pendingDetect, consentObserved>>

----------------------------------------------------------------------------
(* The date normaliser run on its own: every input string of the bounded   *)
(* sets below is parsed, and every valid CanonicalDate is formatted in     *)
(* every format and parsed back.                                           *)

MaxField == 15

MaxDay == 31

DateSeps == {"/", "-", "."}

\* the 1-2 digit groups: 0..MaxField as written, and 0..9 zero-padded
FieldStrs ==
  { NumToStr(n) : n \in 0..MaxField } \cup { PadStart2(NumToStr(n)) : n \in 0..9 }

YearStrs == { <<"1","9","9","0">>, <<"0","9","9","9">> }

\* every string of four digits over a small digit alphabet
YearOnlyStrs == [1..4 -> {"0", "1", "5", "9"}]

DMYParts ==
  [shape : {"dmy"}, a : FieldStrs, s1 : DateSeps, b : FieldStrs, s2 : DateSeps,
   y : YearStrs]
  \cup
  [shape : {"dmy"}, a : { <<"0","3">>, <<"2","5">> }, s1 : {"/"},
   b : { <<"2","5">>, <<"4","0">> }, s2 : {"/"}, y : { <<"1","9","9","0">> }]

ISOParts ==
  [shape : {"iso"}, a : FieldStrs, s1 : DateSeps, b : FieldStrs, s2 : DateSeps,
   y : YearStrs]

\* strings of none of the three shapes
OtherStrs ==
  { <<>>,
    <<"0","5","-","M","a","r","-","1","9","9","0">>,
    <<"5","/","3","/","9","0">>,
    <<"1","9","9","0","-","3">>,
    <<"1","2","3","4","5">>,
    <<"1","9","9">>,
    <<" ","1","9","9","0">>,
    <<"1","5","/","0","8","/","1","9","9","5"," ">>,
    <<"1","5"," ","0","8"," ","1","9","9","5">>,
    <<"1","2","3","/","0","8","/","1","9","9","5">>,
    <<"a","b","c","d">>,
    <<"/","/">> }

NoParts == [shape : {"year", "other", "fmt"}, a : {<<>>}, s1 : {"/"}, b : {<<>>},
            s2 : {"/"}, y : {<<>>}]

PartsOf(shape) == [shape |-> shape, a |-> <<>>, s1 |-> "/", b |-> <<>>, s2 |-> "/", y |-> <<>>]

\* the string a D/M/YYYY or YYYY/M/D input is written as
TextOf(p) ==
  IF p.shape = "dmy" THEN p.a \o <<p.s1>> \o p.b \o <<p.s2>> \o p.y
  ELSE p.y \o <<p.s1>> \o p.a \o <<p.s2>> \o p.b

Years == {1000, 1990, 9999}

ValidDates == [day : 1..MaxDay, month : 1..MaxMonth, year : Years]

FormatInputs == Formats \cup {"DD.MM.YYYY"}

\* no function is being called on its own
CallIdle ==
  /\ callPc = "idle"
  /\ callArg = [none |-> TRUE]
  /\ callResult = NotRun

DateIdle ==
  /\ dateStr = <<>>
  /\ dateObj = NotRun
  /\ dateSrc = Null
  /\ dateFmt = "none"
  /\ datePc = "idle"
  /\ dateIn = PartsOf("other")

InitDate ==
  /\ InitSession
  /\ CallIdle
  /\ dateObj = NotRun
  /\ \/ /\ datePc = "parse"
        /\ dateSrc = Null
        /\ dateFmt = "none"
        /\ \/ \E p \in DMYParts \cup ISOParts : dateIn = p /\ dateStr = TextOf(p)
           \/ dateIn = PartsOf("year") /\ dateStr \in YearOnlyStrs
           \/ dateIn = PartsOf("other") /\ dateStr \in OtherStrs
     \/ /\ datePc = "format"
        /\ dateSrc \in ValidDates
        /\ dateFmt \in FormatInputs
        /\ dateStr = <<>>
        /\ dateIn = PartsOf("fmt")

\* formatDateToExpected(dateSrc, dateFmt)
DoFormat ==
  /\ datePc = "format"
  /\ dateStr' = formatDateToExpected(dateSrc, dateFmt)
  /\ datePc' = "parse"
  /\ UNCHANGED <<dateObj, dateSrc, dateFmt, dateIn, sessionVars, callVars>>

\* parseDate(dateStr)
DoParse ==
  /\ datePc = "parse"
  /\ dateObj' = parseDate(dateStr)
  /\ datePc' = "done"
  /\ UNCHANGED <<dateStr, dateSrc, dateFmt, dateIn, sessionVars, callVars>>

NextDate == DoFormat \/ DoParse

SpecDate == InitDate /\ [][NextDate]_vars

----------------------------------------------------------------------------
(* The field classifier run on its own: identifyField on one control       *)

\* the type attribute of the control
ClassifyTypes == {"text", "email", "hidden", "submit", "button"}

ClassifyNames ==
  { <<>>,
    <<"a","a","d","h","a","r","_","n","o">>,
    <<"f","u","l","l","_","n","a","m","e">>,
    <<"d","o","b">>,
    <<"E","m","a","i","l">>,
    <<"i","d">>,
    <<"x","y","z">> }

ClassifyIds ==
  { <<>>,
    <<"u","i","d">>,
    <<"q","7">> }

ClassifyPlaceholders ==
  { <<>>,
    <<"P","A","N"," ","c","a","r","d">> }

\* the text of a <label> enclosing the control, if there is one
ClassifyLabels == { <<>>, << <<" ","G","e","n","d","e","r"," ">> >> }

ClassifyAriaLabels ==
  { <<>>,
    <<"M","o","b","i","l","e">> }

\* the controls identifyField is called on
ClassifyInputs ==
  { [Control("INPUT", type, name, id, 1) EXCEPT
       !.placeholder = placeholder, !.parentLabel = label, !.ariaLabel = aria] :
      type \in ClassifyTypes, name \in ClassifyNames, id \in ClassifyIds,
      placeholder \in ClassifyPlaceholders, label \in ClassifyLabels,
      aria \in ClassifyAriaLabels }

InitClassify ==
  /\ InitSession
  /\ DateIdle
  /\ callPc = "identifyField"
  /\ callArg \in ClassifyInputs
  /\ callResult = NotRun

\* identifyField(callArg)
DoIdentify ==
  /\ callPc = "identifyField"
  /\ callResult' = identifyField(callArg)
  /\ callPc' = "done"
  /\ UNCHANGED <<callArg, dateVars, sessionVars>>

NextClassify == DoIdentify

SpecClassify == InitClassify /\ [][NextClassify]_vars

----------------------------------------------------------------------------
(* Display masking: maskSensitiveValue, content.js:719-727 *)

MaskKeep == 4

\* line 720
sensitiveFields == <<"aadhaar_number", "pan_number", "voter_id_number">>

\* 'X'.repeat(n)
RepeatX(n) == [i \in 1..n |-> "X"]

\* value.slice(-n)
SliceLast(value, n) ==
  IF Len(value) <= n THEN value ELSE SubSeq(value, Len(value) - n + 1, Len(value))

\* a masking that keeps one character less
maskSensitiveValue_KeepsLess(fieldType, value) ==
  IF (\E i \in 1..Len(sensitiveFields) : sensitiveFields[i] = fieldType)
     /\ Len(value) > MaskKeep
  THEN RepeatX(Len(value) - MaskKeep + 1) \o SliceLast(value, MaskKeep - 1)
  ELSE value

maskSensitiveValue(fieldType, value) ==
  IF (\E i \in 1..Len(sensitiveFields) : sensitiveFields[i] = fieldType)
     /\ Len(value) > MaskKeep
  THEN RepeatX(Len(value) - MaskKeep) \o SliceLast(value, MaskKeep)
  ELSE value

(* maskSensitiveValue run on its own *)

MaxValueLen == 6

MaskChars == {"A", "7", "X"}

MaskValues ==
  UNION { [1..n -> MaskChars] : n \in 0..MaxValueLen } \cup { <<"A","B","C","D","E","1","2","3","4","F">> }

MaskFieldTypes == {"aadhaar_number", "pan_number", "voter_id_number", "email", "name"}

InitMask ==
  /\ InitSession
  /\ DateIdle
  /\ callPc = "maskSensitiveValue"
  /\ callArg \in [fieldType : MaskFieldTypes, value : MaskValues]
  /\ callResult = NotRun

\* maskSensitiveValue(callArg.fieldType, callArg.value)
DoMask ==
  /\ callPc = "maskSensitiveValue"
  /\ callResult' = [value |-> maskSensitiveValue(callArg.fieldType, callArg.value)]
  /\ callPc' = "done"
  /\ UNCHANGED <<callArg, dateVars, sessionVars>>

NextMask == DoMask

SpecMask == InitMask /\ [][NextMask]_vars

----------------------------------------------------------------------------
(* fillField and detectSelectPurpose run on their own, on one control:     *)
(* selects with and without name or id hints and with several kinds of     *)
(* option lists, text, native date and checkbox inputs with and without a  *)
(* placeholder.                                                            *)

WriterNames ==
  { <<>>,
    <<"d","o","b","_","d","a","y">>,
    <<"d","o","b","_","m","o","n","t","h">>,
    <<"d","o","b","_","y","e","a","r">>,
    <<"d","d">>,
    <<"m","m">>,
    <<"y","y">>,
    <<"b","i","r","t","h","d","a","y","_","m","o","n","t","h">>,
    <<"s","t","a","t","e">>,
    <<"a","d","d","r","e","s","s">>,
    <<"d","o","b">> }

WriterIds ==
  { <<>>,
    <<"d","d">>,
    <<"m","m">>,
    <<"y","y">>,
    <<"s","e","l","_","d","a","y">>,
    <<"b","i","r","t","h","d","a","t","e">> }

WriterPlaceholders ==
  { <<>>,
    <<"D","O","B">>,
    <<"d","d","-","m","m","-","y","y","y","y">>,
    <<"M","M","/","D","D","/","Y","Y","Y","Y">>,
    <<"E","n","t","e","r"," ","d","a","t","e">>,
    <<"y","y","y","y","-","m","m","-","d","d">> }

\* month numbers with month names as texts
NumberedMonths ==
  [i \in 1..Len(monthNames) |-> [value |-> PadStart2(NumToStr(i)), text |-> monthNames[i]]]

YearOptions ==
  << [value |-> <<>>, text |-> <<"Y","e","a","r">>],
       [value |-> <<"1","9","9","4">>, text |-> <<"1","9","9","4">>],
       [value |-> <<"1","9","9","5">>, text |-> <<"1","9","9","5">>],
       [value |-> <<"1","9","9","6">>, text |-> <<"1","9","9","6">>] >>

\* options from which no purpose can be read
PlainOptions ==
  << [value |-> <<"k","a">>, text |-> <<"K","a","r","n","a","t","a","k","a">>],
       [value |-> <<"a">>, text |-> <<"1","5","/","0","8","/","1","9","9","5">>],
       [value |-> <<"b">>, text |-> <<"1","5","/","0","8","/","1","9","9","5">>],
       [value |-> <<"T","N">>, text |-> <<"T","a","m","i","l"," ","N","a","d","u">>] >>

OrdinalOptions ==
  << [value |-> <<"x","1","4">>, text |-> <<"1","4","t","h">>],
       [value |-> <<"x","1","5">>, text |-> <<"1","5","t","h">>],
       [value |-> <<"x","8">>, text |-> <<"8","t","h">>] >>

WriterOptionLists ==
  { DayOptions, MonthOptions, NumberedMonths, YearOptions, PlainOptions, OrdinalOptions }

WriterValues ==
  { <<"1","5","/","0","8","/","1","9","9","5">>,
    <<"1","9","9","5","-","0","8","-","1","5">>,
    <<"1","9","9","5">>,
    <<"8","/","1","5","/","1","9","9","5">>,
    <<"A","u","g">>,
    <<"a","u","g","u","s","t"," ","1","9","9","5">>,
    <<"K","A">>,
    <<"o","n">> }

WriterFieldTypes == {"date_of_birth", "state", "null"}

WriterSelects ==
  { [Control("SELECT", "select-one", name, id, 1) EXCEPT !.options = options] :
      name \in WriterNames, id \in WriterIds, options \in WriterOptionLists }

WriterInputs ==
  { [Control("INPUT", type, name, id, 1) EXCEPT !.placeholder = placeholder, !.value = <<"o","n">>] :
      type \in {"text"}, name \in WriterNames, id \in WriterIds, placeholder \in WriterPlaceholders }
  \cup
  { [Control("INPUT", type, name, <<>>, 1) EXCEPT !.value = <<"o","n">>] :
      type \in {"date", "checkbox"}, name \in WriterNames }

InitFill ==
  /\ InitSession
  /\ DateIdle
  /\ callPc \in {"fillField", "detectSelectPurpose"}
  /\ callArg \in [element : IF callPc = "fillField" THEN WriterSelects \cup WriterInputs
                            ELSE WriterSelects,
                  value : IF callPc = "fillField" THEN WriterValues ELSE {<<>>},
                  fieldType : IF callPc = "fillField" THEN WriterFieldTypes ELSE {"null"}]
  /\ callResult = NotRun

\* fillField(callArg.element, callArg.value, callArg.fieldType)
DoFillField ==
  /\ callPc = "fillField"
  /\ callResult' = FillOutcome(callArg.element, callArg.value, callArg.fieldType)
  /\ callPc' = "filled"
  /\ UNCHANGED <<callArg, dateVars, sessionVars>>

\* detectSelectPurpose(callArg.element, Array.from(callArg.element.options))
DoDetectSelectPurpose ==
  /\ callPc = "detectSelectPurpose"
  /\ callResult' = [purpose |-> detectSelectPurpose(callArg.element, callArg.element.options)]
  /\ callPc' = "resolved"
  /\ UNCHANGED <<callArg, dateVars, sessionVars>>

NextFill == DoFillField \/ DoDetectSelectPurpose

SpecFill == InitFill /\ [][NextFill]_vars

----------------------------------------------------------------------------
(* Background service worker: apiRequest, refreshAccessToken, logout and    *)
(* getAutofillData, background.js:57-116, 236-245, 266-290                  *)
(*                                                                         *)
(* The backend's behaviour during one call is given by net: the outcome of *)
(* the first fetch, of the refresh request and of the retried fetch, each  *)
(* an HTTP status or "error" when fetch rejects.                            *)

\* s.startsWith(prefix)
StartsWith(s, prefix) ==
  Len(s) >= Len(prefix) /\ SubSeq(s, 1, Len(prefix)) = prefix

\* response.ok
IsOk(status) == status = "200"

\* lines 237-242
LoggedOut ==
  [accessToken |-> "none", refreshToken |-> "none", user |-> "none", isAuthenticated |-> FALSE]

\* a refresh whose failure leaves the session as it was
refreshAccessToken_KeepsSession(auth, net) ==
  IF net.refresh = "200"
  THEN [requests |-> <<"/auth/refresh">>, refreshed |-> TRUE,
        auth |-> [auth EXCEPT !.accessToken = "fresh", !.refreshToken = "fresh"],
        saves |-> << [auth EXCEPT !.accessToken = "fresh", !.refreshToken = "fresh"] >>]
  ELSE [requests |-> <<"/auth/refresh">>, refreshed |-> FALSE, auth |-> auth, saves |-> <<>>]

\* refreshAccessToken (lines 94-116): the requests it sends, whether it
\* succeeded, the auth state it leaves and the auth states it hands to
\* saveAuthState (lines 47-54; logout, lines 236-245, saves the reset state)
refreshAccessToken(auth, net) ==
  IF net.refresh = "200"
  THEN LET replaced == [auth EXCEPT !.accessToken = "fresh", !.refreshToken = "fresh"]
       IN [requests |-> <<"/auth/refresh">>, refreshed |-> TRUE,
           auth |-> replaced, saves |-> <<replaced>>]
  ELSE [requests |-> <<"/auth/refresh">>, refreshed |-> FALSE,
        auth |-> LoggedOut, saves |-> <<LoggedOut>>]

\* apiRequest (lines 57-91): the requests it sends, the status of the response
\* it returns ("error" when it throws), the auth state it leaves and the auth
\* states written to storage
apiRequest(auth, endpoint, net) ==
  IF net.first = "error"
  THEN [requests |-> <<endpoint>>, status |-> "error", auth |-> auth, saves |-> <<>>]
  ELSE IF net.first = "401" /\ auth.refreshToken # "none"
  THEN LET r == refreshAccessToken(auth, net)
       IN IF r.refreshed
          THEN [requests |-> <<endpoint>> \o r.requests \o <<endpoint>>,
                status |-> net.retry, auth |-> r.auth, saves |-> r.saves]
          ELSE [requests |-> <<endpoint>> \o r.requests,
                status |-> net.first, auth |-> r.auth, saves |-> r.saves]
  ELSE [requests |-> <<endpoint>>, status |-> net.first, auth |-> auth, saves |-> <<>>]

Failure(error) == [success |-> FALSE, error |-> error]

\* getAutofillData without the HTTPS check of lines 271-274
getAutofillData_AnyScheme(auth, websiteUrl, net) ==
  IF ~auth.isAuthenticated
  THEN [result |-> Failure("Not authenticated"), requests |-> <<>>, auth |-> auth]
  ELSE LET r == apiRequest(auth, "/user/autofill", net)
       IN [result |-> IF r.status = "error" THEN Failure("error.message")
                      ELSE IF IsOk(r.status) THEN [success |-> TRUE, error |-> "none"]
                      ELSE Failure("Failed to fetch autofill data"),
           requests |-> r.requests, auth |-> r.auth]

\* getAutofillData (lines 266-290): its result, the requests sent to the
\* backend and the auth state it leaves
getAutofillData(auth, websiteUrl, net) ==
  IF ~auth.isAuthenticated
  THEN [result |-> Failure("Not authenticated"), requests |-> <<>>, auth |-> auth]
  ELSE IF ~StartsWith(websiteUrl, <<"h","t","t","p","s",":","/","/">>)
  THEN [result |-> Failure("Only HTTPS websites are supported"), requests |-> <<>>,
        auth |-> auth]
  ELSE LET r == apiRequest(auth, "/user/autofill", net)
       IN [result |-> IF r.status = "error" THEN Failure("error.message")
                      ELSE IF IsOk(r.status) THEN [success |-> TRUE, error |-> "none"]
                      ELSE Failure("Failed to fetch autofill data"),
           requests |-> r.requests, auth |-> r.auth]

(* getAutofillData run on its own *)

\* logged out, logged in, logged in without a refresh token
AuthStates ==
  { LoggedOut,
    [accessToken |-> "stored", refreshToken |-> "stored", user |-> "stored",
     isAuthenticated |-> TRUE],
    [accessToken |-> "stored", refreshToken |-> "none", user |-> "stored",
     isAuthenticated |-> TRUE] }

\* what window.location.href can be on the pages the request comes from
PageUrls ==
  { <<"h","t","t","p","s",":","/","/","g","o","v",".","i","n","/","f">>,
    <<"h","t","t","p",":","/","/","g","o","v",".","i","n","/","f">>,
    <<"H","T","T","P","S",":","/","/","g","o","v",".","i","n","/","f">>,
    <<"h","t","t","p","s",":","/","g","o","v",".","i","n">>,
    <<"h","t","t","p",":","/","/","a",".","i","n","/","?","u","=","h","t","t","p","s",":","/","/","b",".","i","n">>,
    <<"f","i","l","e",":","/","/","/","f",".","h","t","m","l">>,
    <<"h","t","t","p","s",":","/","/">>,
    <<>> }

Statuses == {"200", "401", "500", "error"}

NetOutcomes == [first : Statuses, refresh : {"200", "401", "error"}, retry : Statuses]

InitBackground ==
  /\ InitSession
  /\ DateIdle
  /\ callPc = "getAutofillData"
  /\ callArg \in [auth : AuthStates, websiteUrl : PageUrls, net : NetOutcomes]
  /\ callResult = NotRun

\* getAutofillData({fields, websiteUrl}) answered to the content script
DoGetAutofillData ==
  /\ callPc = "getAutofillData"
  /\ callResult' = getAutofillData(callArg.auth, callArg.websiteUrl, callArg.net)
  /\ callPc' = "done"
  /\ UNCHANGED <<callArg, dateVars, sessionVars>>

NextBackground == DoGetAutofillData

SpecBackground == InitBackground /\ [][NextBackground]_vars

(* apiRequest run on its own *)

Endpoints == {"/user/autofill", "/user/profile", "/consent/log"}

InitApi ==
  /\ InitSession
  /\ DateIdle
  /\ callPc = "apiRequest"
  /\ callArg \in [auth : AuthStates, endpoint : Endpoints, net : NetOutcomes]
  /\ callResult = NotRun

\* apiRequest(callArg.endpoint) with authState = callArg.auth
DoApiRequest ==
  /\ callPc = "apiRequest"
  /\ callResult' = apiRequest(callArg.auth, callArg.endpoint, callArg.net)
  /\ callPc' = "returned"
  /\ UNCHANGED <<callArg, dateVars, sessionVars>>

NextApi == DoApiRequest

SpecApi == InitApi /\ [][NextApi]_vars

----------------------------------------------------------------------------
(* The content script on a page: every handler, in any order *)

Init == InitSession /\ DateIdle /\ CallIdle

Next ==
  \/ DetectTimerFires /\ UNCHANGED <<dateVars, callVars>>
  \/ MsgDetectForms /\ UNCHANGED <<dateVars, callVars>>
  \/ \E f \in Forms : PageAddsForm(f) /\ UNCHANGED <<dateVars, callVars>>
  \/ ClickAutofillButton /\ UNCHANGED <<dateVars, callVars>>
  \/ \E r \in Responses : ResponseArrives(r) /\ UNCHANGED <<dateVars, callVars>>
  \/ UserTogglesConsent /\ UNCHANGED <<dateVars, callVars>>
  \/ UserClosesConsent /\ UNCHANGED <<dateVars, callVars>>
  \/ UserConfirmsConsent /\ UNCHANGED <<dateVars, callVars>>
  \/ \E p \in AutofillPayloads : MsgAutofillForm(p) /\ UNCHANGED <<dateVars, callVars>>
  \/ MsgShowPreview /\ UNCHANGED <<dateVars, callVars>>
  \/ \E p \in VoicePayloads : MsgApplyVoiceInput(p) /\ UNCHANGED <<dateVars, callVars>>
  \/ MsgUnknown /\ UNCHANGED <<dateVars, callVars>>
  \/ \E f \in Forms : UserSubmitsForm(f) /\ UNCHANGED <<dateVars, callVars>>
  \/ \E b \in ControlIds : UserClicksSubmit(b) /\ UNCHANGED <<dateVars, callVars>>
  \/ VerifyCancel /\ UNCHANGED <<dateVars, callVars>>
  \/ VerifyConfirm /\ UNCHANGED <<dateVars, callVars>>

Spec == Init /\ [][Next]_vars

(* The content script on a page whose forms come and go: the detection      *)
(* passes, with the handlers that open the panels and set the flag the      *)
(* passes run under.  No other handler writes detectedFields or the button. *)

NextDynamic ==
  \/ DetectTimerFires /\ UNCHANGED <<dateVars, callVars>>
  \/ MsgDetectForms /\ UNCHANGED <<dateVars, callVars>>
  \/ \E f \in Forms : PageAddsForm(f) /\ UNCHANGED <<dateVars, callVars>>
  \/ \E f \in Forms : PageRemovesForm(f) /\ UNCHANGED <<dateVars, callVars>>
  \/ ClickAutofillButton /\ UNCHANGED <<dateVars, callVars>>
  \/ \E r \in Responses : ResponseArrives(r) /\ UNCHANGED <<dateVars, callVars>>
  \/ UserClosesConsent /\ UNCHANGED <<dateVars, callVars>>
  \/ \E p \in AutofillPayloads : MsgAutofillForm(p) /\ UNCHANGED <<dateVars, callVars>>
  \/ \E f \in Forms : UserSubmitsForm(f) /\ UNCHANGED <<dateVars, callVars>>
  \/ VerifyCancel /\ UNCHANGED <<dateVars, callVars>>
  \/ VerifyConfirm /\ UNCHANGED <<dateVars, callVars>>

SpecDynamic == Init /\ [][NextDynamic]_vars

(* The handlers that insert the engine's own elements (button, consent     *)
(* panel, notification, verification panel) on a page that adds forms, with *)
(* the browser's timers: a timer set by setTimeout fires once its delay has *)
(* passed, so a pending detection timer is not left waiting forever.        *)

TimerStep == DetectTimerFires /\ UNCHANGED <<dateVars, callVars>>

NextSettle ==
  \/ TimerStep
  \/ \E f \in Forms : PageAddsForm(f) /\ UNCHANGED <<dateVars, callVars>>
  \/ ClickAutofillButton /\ UNCHANGED <<dateVars, callVars>>
  \/ \E r \in Responses : ResponseArrives(r) /\ UNCHANGED <<dateVars, callVars>>
  \/ UserTogglesConsent /\ UNCHANGED <<dateVars, callVars>>
  \/ UserConfirmsConsent /\ UNCHANGED <<dateVars, callVars>>
  \/ \E f \in Forms : UserSubmitsForm(f) /\ UNCHANGED <<dateVars, callVars>>
  \/ VerifyCancel /\ UNCHANGED <<dateVars, callVars>>

SpecSettle == Init /\ [][NextSettle]_vars /\ WF_vars(TimerStep)

(* performAutofill on the pages detection can leave behind, with value maps *)
(* that supply some, all or none of the detected types and a date of birth  *)
(* that no option of the selects matches.                                   *)

CommitMaps ==
  DataMaps \cup
  { << <<"date_of_birth", UnparsedDate>> >>,
    << <<"email", StoredEmail>>, <<"aadhaar_number", StoredAadhaar>> >> }

CommitPayloads == { [present |-> TRUE, data |-> Obj(e)] : e \in CommitMaps }

NextCommit ==
  \/ DetectTimerFires /\ UNCHANGED <<dateVars, callVars>>
  \/ MsgDetectForms /\ UNCHANGED <<dateVars, callVars>>
  \/ \E f \in Forms : PageAddsForm(f) /\ UNCHANGED <<dateVars, callVars>>
  \/ \E f \in Forms : PageRemovesForm(f) /\ UNCHANGED <<dateVars, callVars>>
  \/ \E p \in CommitPayloads : MsgAutofillForm(p) /\ UNCHANGED <<dateVars, callVars>>

SpecCommit == Init /\ [][NextCommit]_vars

----------------------------------------------------------------------------
(* Properties of the session controller (checked under Spec) *)

\* a fill is in effect: the flag is set or some control carries the highlight
FilledState == isAutofillActive \/ \E c \in ControlIds : ctl[c].highlighted

\* C1: controls are filled and isAutofillActive is true only after the confirm
\* button of the consent panel was clicked with the consent checkbox checked.
C1_ConsentGating == FilledState => consentObserved

\* C2: while isAutofillActive is true no form is submitted except by the
\* confirm button of the verification panel: every submit event and every
\* activation of a submit control is suppressed.
C2_SubmitSuppressed ==
  [][isAutofillActive /\ lastOp'.op # "verifyConfirm" => lastOp'.submitted = 0]_vars

\* the listeners carried by the target the verification panel was opened for
TargetListeners(popup, forms, controls) ==
  IF popup.tag = "FORM" THEN {popup.target} \cap forms ELSE {popup.target} \cap controls

\* C3: the confirm button of the verification panel clears isAutofillActive,
\* detaches the interceptor from the target whose event was intercepted and
\* submits the intercepted form, whether the panel was opened by a submit
\* event or by a click on a submit control.
C3_ConfirmDetaches ==
  [][verifyPopup.open /\ lastOp'.op = "verifyConfirm" =>
       /\ ~isAutofillActive'
       /\ TargetListeners(verifyPopup, formListeners', btnListeners') = {}
       /\ lastOp'.submitted = (IF verifyPopup.tag = "FORM" THEN verifyPopup.target
                               ELSE FormOwner(verifyPopup.target))]_vars

\* C4: the cancel button of the verification panel only removes the panel:
\* isAutofillActive stays true, detectedFields, the controls and the listeners
\* are unchanged, nothing is submitted or logged, and the target the panel was
\* opened for is intercepted again at its next submit attempt.
C4_CancelOnlyDismisses ==
  [][verifyPopup.open /\ lastOp'.op = "verifyCancel" =>
       /\ ~verifyPopup'.open
       /\ isAutofillActive /\ isAutofillActive'
       /\ UNCHANGED <<detectedFields, ctl, pageForms, formListeners, btnListeners>>
       /\ lastOp'.submitted = 0 /\ lastOp'.log = "none"
       /\ TargetListeners(verifyPopup, formListeners', btnListeners') # {}]_vars

\* C4 witness: the panel was cancelled and the session is still active
C4_Witness ==
  /\ lastOp.op = "verifyCancel"
  /\ isAutofillActive /\ ~verifyPopup.open
  /\ formListeners # {} /\ btnListeners # {}

\* C5: no handler of the content script ends by an uncaught exception.
C5_NoUncaught == ~lastOp.threw

\* the consent confirm handler has just committed a fill that wrote the
\* three date-of-birth controls of form 1
CommittedDobFill ==
  /\ lastOp.op = "confirmConsent"
  /\ lastOp.log = "autofill_request"
  /\ \A c \in 1..3 : ctl[c].highlighted

\* C6: after a committed fill with "15/08/1995" for date_of_birth the dob_day
\* select has value 15, the dob_month select has Aug selected and the dob_year
\* input holds 1995.
C6_DobScenario ==
  CommittedDobFill =>
    /\ ctl[1].value = <<"1","5">>
    /\ ctl[2].value = <<"A","u","g">>
    /\ ctl[3].value = <<"1","9","9","5">>

\* C17: every call of fillField dispatches an input event and a change event
\* on the control, whatever its kind and whether or not a value was written.
C17_BothEvents ==
  \A c \in ControlIds : ctl[c].highlighted => ctl[c].events = <<"input", "change">>

----------------------------------------------------------------------------
(* Properties of the detection passes (checked under SpecDynamic) *)

\* the step is a detection pass
DetectionPass == lastOp'.op \in {"detectTimer", "DETECT_FORMS"}

\* C18: when the most recent detection pass found no control, the autofill
\* button is not in the page, also when an earlier pass had found controls.
C18_PassiveWhenEmpty == detectedFields = <<>> => ~buttonShown

\* the controls of the document that identifyField classifies
ClassifiedInDocument(forms, consentOpen) ==
  { c \in ControlIds : /\ InDocument(c, forms, consentOpen)
                        /\ Controls[c].tag \in {"INPUT", "SELECT", "TEXTAREA"}
                        /\ identifyField(Controls[c]) # Null }

\* C20: a detection pass, in whatever session state it runs, leaves in
\* detectedFields exactly the controls of the current page that identifyField
\* classifies, each once and with its classification, and leaves
\* isAutofillActive unchanged.
C20_FreshDetection ==
  [][DetectionPass =>
       /\ { detectedFields'[k].element : k \in 1..Len(detectedFields') }
            = ClassifiedInDocument(pageForms, consentPopup.open)
       /\ Len(detectedFields') = Cardinality(ClassifiedInDocument(pageForms, consentPopup.open))
       /\ \A k \in 1..Len(detectedFields') :
            detectedFields'[k].fieldType
              = identifyField(Controls[detectedFields'[k].element]).fieldType
       /\ isAutofillActive' = isAutofillActive]_vars

----------------------------------------------------------------------------
(* Properties of the date normaliser (checked under SpecDate) *)

ParsedShape(shape) == datePc = "done" /\ dateIn.shape = shape

\* day, month and year of r are those of d
SameDate(r, d) ==
  /\ {"day", "month", "year"} \subseteq DOMAIN r
  /\ r.day = d.day
  /\ r.month = d.month
  /\ r.year = d.year

\* C7: for an input A<sep>B<sep>YYYY (A, B of 1-2 digits, each sep one of / - .)
\* parseDate returns day=A, month=B when B <= 12; otherwise month=A, day=B when
\* A <= 12; otherwise day=A and month 12; the year is YYYY in every case.
C7_ParseDMY ==
  ParsedShape("dmy") =>
    LET A == DigitsValue(dateIn.a)
        B == DigitsValue(dateIn.b)
        Y == DigitsValue(dateIn.y)
    IN /\ DOMAIN dateObj = {"day", "month", "year"}
       /\ dateObj.year = Y
       /\ (B <= 12) => (dateObj.day = A /\ dateObj.month = B)
       /\ (B > 12 /\ A <= 12) => (dateObj.month = A /\ dateObj.day = B)
       /\ (B > 12 /\ A > 12) => (dateObj.day = A /\ dateObj.month = 12)

\* "03/25/1990" was parsed as day 25, month 3, year 1990
C7_Witness ==
  /\ ParsedShape("dmy")
  /\ dateStr = <<"0","3","/","2","5","/","1","9","9","0">>
  /\ dateObj = [day |-> 25, month |-> 3, year |-> 1990]

\* C8: for an input of exactly four digits parseDate returns
\* {day:1, month:1, year:<the input as an integer>, yearOnly:true}.
C8_YearOnly ==
  ParsedShape("year") =>
    dateObj = [day |-> 1, month |-> 1, year |-> DigitsValue(dateStr),
               yearOnly |-> TRUE]

\* "1990" was parsed as the year 1990
C8_Witness ==
  /\ ParsedShape("year")
  /\ dateStr = <<"1","9","9","0">>
  /\ dateObj.year = 1990
  /\ dateObj.yearOnly

RoundTripDone(format) == datePc = "done" /\ dateIn.shape = "fmt" /\ dateFmt = format

\* C9 as claimed: for each of DD-Mon-YYYY, DD/MM/YYYY, DD-MM-YYYY, YYYY-MM-DD and
\* every valid date d, parseDate(formatDateToExpected(d, F)) reproduces d.
C9_RoundTripClaimed ==
  \A F \in {"DD-Mon-YYYY", "DD/MM/YYYY", "DD-MM-YYYY", "YYYY-MM-DD"} :
    RoundTripDone(F) => SameDate(dateObj, dateSrc)

\* C9 as amended: for each of DD/MM/YYYY, DD-MM-YYYY, YYYY-MM-DD and every valid
\* date d the round trip reproduces the day, month and year of d; for DD-Mon-YYYY
\* parseDate returns null, since a month name is in none of its three shapes.
C9_RoundTripNumeric ==
  /\ \A F \in {"DD/MM/YYYY", "DD-MM-YYYY", "YYYY-MM-DD"} :
       RoundTripDone(F) => SameDate(dateObj, dateSrc)
  /\ RoundTripDone("DD-Mon-YYYY") => dateObj = Null

\* 5 March 1990 went through DD-MM-YYYY and came back
C9_Witness ==
  /\ RoundTripDone("DD-MM-YYYY")
  /\ dateStr = <<"0","5","-","0","3","-","1","9","9","0">>
  /\ dateSrc = [day |-> 5, month |-> 3, year |-> 1990]
  /\ dateObj = [day |-> 5, month |-> 3, year |-> 1990]

\* C10 as claimed: through MM/DD/YYYY the round trip differs from d for every
\* valid d with d.day <= 12 and reproduces d for every d with d.day > 12.
C10_AmericanClaimed ==
  RoundTripDone("MM/DD/YYYY") =>
    /\ (dateSrc.day <= 12) => ~SameDate(dateObj, dateSrc)
    /\ (dateSrc.day > 12) => SameDate(dateObj, dateSrc)

\* C10 as amended: through MM/DD/YYYY a valid d with d.day <= 12 comes back with
\* day and month exchanged (day = d.month, month = d.day, same year), which
\* differs from d exactly when d.day # d.month; a d with d.day > 12 is reproduced.
C10_AmericanSwapped ==
  RoundTripDone("MM/DD/YYYY") =>
    /\ (dateSrc.day <= 12) =>
         /\ SameDate(dateObj, [day |-> dateSrc.month, month |-> dateSrc.day,
                               year |-> dateSrc.year])
         /\ (SameDate(dateObj, dateSrc) <=> dateSrc.day = dateSrc.month)
    /\ (dateSrc.day > 12) => SameDate(dateObj, dateSrc)

\* 5 March 1990 went through MM/DD/YYYY ("03/05/1990") and came back as 3 May
C10_Witness ==
  /\ RoundTripDone("MM/DD/YYYY")
  /\ dateSrc = [day |-> 5, month |-> 3, year |-> 1990]
  /\ dateStr = <<"0","3","/","0","5","/","1","9","9","0">>
  /\ dateObj = [day |-> 3, month |-> 5, year |-> 1990]

\* C21: every non-null result of parseDate on a string of one of the three
\* shapes has 1 <= day <= 31, 1 <= month <= 12 and a four-digit year.
C21_InRange ==
  (datePc = "done" /\ dateIn.shape \in {"year", "dmy", "iso"} /\ dateObj # Null) =>
    /\ dateObj.day \in 1..31
    /\ dateObj.month \in 1..12
    /\ dateObj.year \in 1000..9999

\* the two decimal digits of n < 100, and the four of y < 10000
TwoDigits(n) == <<DigitChars[(n \div 10) + 1], DigitChars[(n % 10) + 1]>>

FourDigits(y) == TwoDigits(y \div 100) \o TwoDigits(y % 100)

\* the text the format asks for: the parts in its order, joined by its separator
Rendered(d, format) ==
  LET DD   == TwoDigits(d.day)
      MM   == TwoDigits(d.month)
      YYYY == FourDigits(d.year)
  IN CASE format = "DD-Mon-YYYY" -> DD \o <<"-">> \o monthNames[d.month] \o <<"-">> \o YYYY
       [] format = "DD-MM-YYYY"  -> DD \o <<"-">> \o MM \o <<"-">> \o YYYY
       [] format = "MM/DD/YYYY"  -> MM \o <<"/">> \o DD \o <<"/">> \o YYYY
       [] format = "YYYY-MM-DD"  -> YYYY \o <<"-">> \o MM \o <<"-">> \o DD
       [] OTHER                  -> DD \o <<"/">> \o MM \o <<"/">> \o YYYY

\* formatDateToExpected has run on a valid date
Formatted == datePc \in {"parse", "done"} /\ dateIn.shape = "fmt"

\* C11: formatDateToExpected renders day and month as two digits, zero-padded,
\* in the order and with the separators of the requested format, the month of
\* DD-Mon-YYYY as its three-letter name, and any format outside the five
\* supported ones as DD/MM/YYYY.
C11_Rendering ==
  Formatted =>
    /\ dateStr = Rendered(dateSrc, dateFmt)
    /\ Len(dateStr) = (IF dateFmt = "DD-Mon-YYYY" THEN 11 ELSE 10)
    /\ dateFmt \notin Formats =>
         dateStr = Rendered(dateSrc, "DD/MM/YYYY")

\* 5 March 1990 was rendered as "05-Mar-1990"
C11_Witness ==
  /\ Formatted
  /\ dateSrc = [day |-> 5, month |-> 3, year |-> 1990]
  /\ dateFmt = "DD-Mon-YYYY"
  /\ dateStr = <<"0","5","-","M","a","r","-","1","9","9","0">>

\* C12: parseDate returns null for every string of none of the three shapes
\* (the empty string and malformed text included) and a date for every string
\* of one of the three shapes.
C12_NullIffNoShape ==
  /\ ParsedShape("other") => dateObj = Null
  /\ (ParsedShape("year") \/ ParsedShape("dmy") \/ ParsedShape("iso")) =>
       /\ dateObj # Null
       /\ {"day", "month", "year"} \subseteq DOMAIN dateObj
  /\ datePc = "done" => dateObj # NotRun

\* a malformed text was parsed to null
C12_Witness ==
  /\ ParsedShape("other")
  /\ dateStr = <<"5","/","3","/","9","0">>
  /\ dateObj = Null

----------------------------------------------------------------------------
(* Properties of the field classifier (checked under SpecClassify) *)

Identified == callPc = "done"

\* C13: identifyField returns null for every control of type hidden, submit or
\* button, whatever its name, id, placeholder, label or aria-label; no
\* detection pass puts such a control in detectedFields.
C13_ExcludedKinds ==
  /\ (Identified /\ callArg.type \in {"hidden", "submit", "button"}) => callResult = Null
  /\ \A forms \in SUBSET Forms, open \in BOOLEAN :
       \A k \in 1..Len(Detected[forms, open]) :
          Controls[Detected[forms, open][k].element].type \notin {"hidden", "submit", "button"}

\* a hidden control whose name, id, placeholder, label and aria-label all match
\* patterns of the table was classified null
C13_Witness ==
  /\ Identified
  /\ callArg.type = "hidden"
  /\ callArg.name = <<"a","a","d","h","a","r","_","n","o">>
  /\ callArg.id = <<"u","i","d">>
  /\ callArg.placeholder # <<>> /\ callArg.parentLabel # <<>> /\ callArg.ariaLabel # <<>>
  /\ callResult = Null

\* the non-empty lower-cased identifiers in the order name, id, placeholder,
\* label, aria-label
OrderedIdentifiers(input) ==
  LET all == << toLowerCase(input.name), toLowerCase(input.id),
                toLowerCase(input.placeholder),
                toLowerCase(IF input.parentLabel # <<>> THEN trim(input.parentLabel[1]) ELSE <<>>),
                toLowerCase(input.ariaLabel) >>
  IN SelectSeq(all, LAMBDA s : Len(s) > 0)

\* the (type, pattern, identifier) triples, as indices, for which the identifier
\* contains the pattern or the pattern contains the identifier
MatchingTriples(input) ==
  LET ids == OrderedIdentifiers(input)
      all == UNION { { <<t, p, i>> : p \in 1..Len(FIELD_MAPPING[t].patterns),
                                     i \in 1..Len(ids) } :
                     t \in 1..Len(FIELD_MAPPING) }
  IN { x \in all :
         \/ Includes(ids[x[3]], FIELD_MAPPING[x[1]].patterns[x[2]])
         \/ Includes(FIELD_MAPPING[x[1]].patterns[x[2]], ids[x[3]]) }

\* x comes no later than y in the walk: type first, then pattern, then identifier
WalkedBefore(x, y) ==
  \/ x[1] < y[1]
  \/ x[1] = y[1] /\ x[2] < y[2]
  \/ x[1] = y[1] /\ x[2] = y[2] /\ x[3] <= y[3]

\* C14: for a control that is not of an excluded type, identifyField returns the
\* type of the first matching (type, pattern, identifier) triple in the order
\* table entry, pattern, identifier, and null when no triple matches.
C14_FirstTriple ==
  (Identified /\ callArg.type \notin {"hidden", "submit", "button"}) =>
    LET T == MatchingTriples(callArg)
    IN IF T = {} THEN callResult = Null
       ELSE LET first == CHOOSE x \in T : \A y \in T : WalkedBefore(x, y)
            IN /\ callResult # Null
               /\ callResult.fieldType = FIELD_MAPPING[first[1]].fieldType

\* a control whose only identifier is name="aadhar_no" was classified aadhaar_number
C14_Witness ==
  /\ Identified
  /\ callArg.type = "text"
  /\ OrderedIdentifiers(callArg) = << <<"a","a","d","h","a","r","_","n","o">> >>
  /\ callResult # Null
  /\ callResult.fieldType = "aadhaar_number"

\* the closed vocabulary of semantic field types
Vocabulary ==
  {"full_name", "full_name_regional", "father_name", "aadhaar_number", "pan_number",
   "voter_id_number", "driving_license_number", "date_of_birth", "gender", "address",
   "mobile_number", "email", "community", "annual_income", "blood_group"}

\* C15: every fieldType identifyField returns is a member of the closed vocabulary.
C15_ClosedVocabulary ==
  (Identified /\ callResult # Null) => callResult.fieldType \in Vocabulary

----------------------------------------------------------------------------
(* Properties of the display masking (checked under SpecMask) *)

Masked == callPc = "done"

----------------------------------------------------------------------------
(* Properties of the background value source (checked under SpecBackground) *)

Answered == callPc = "done"

\* the page URL starts with the eight characters https://
HttpsUrl(url) ==
  /\ Len(url) >= 8
  /\ <<url[1], url[2], url[3], url[4], url[5], url[6], url[7], url[8]>>
       = <<"h","t","t","p","s",":","/","/">>

\* C19: getAutofillData returns a failure and sends no request to the backend
\* when the extension is not authenticated or the page URL does not start
\* with https://; /user/autofill is requested only when both checks pass,
\* and then it is requested.
C19_RefusedUpstream ==
  Answered =>
    LET passes == callArg.auth.isAuthenticated /\ HttpsUrl(callArg.websiteUrl)
    IN /\ ~passes => (~callResult.result.success /\ callResult.requests = <<>>)
       /\ (\E i \in 1..Len(callResult.requests) : callResult.requests[i] = "/user/autofill")
            <=> passes

\* a logged-in extension refused an http page without asking the backend
C19_Witness ==
  /\ Answered
  /\ callArg.auth.isAuthenticated
  /\ callArg.websiteUrl = <<"h","t","t","p",":","/","/","g","o","v",".","i","n","/","f">>
  /\ callResult.result = [success |-> FALSE, error |-> "Only HTTPS websites are supported"]
  /\ callResult.requests = <<>>

----------------------------------------------------------------------------
(* Properties of the value writer run on its own (SpecFill)                *)

ContainsHint(s, hints) == \E h \in hints : Includes(toLowerCase(s), h)

\* the index of the first option of the call's select that passes, 0 if none
FirstOption(Passes(_)) ==
  LET options == callArg.element.options
      hits    == { i \in 1..Len(options) : Passes(options[i]) }
  IN IF hits = {} THEN 0 ELSE CHOOSE i \in hits : \A j \in hits : i <= j

\* the call wrote the value of option k, or wrote nothing when k = 0
SelectedOption(k) ==
  IF k = 0 THEN ~callResult.assigns
  ELSE callResult.assigns /\ callResult.value = callArg.element.options[k].value

DateSelectCall ==
  /\ callPc = "filled"
  /\ callArg.element.tag = "SELECT"
  /\ \/ callArg.fieldType = "date_of_birth"
     \/ ContainsHint(callArg.element.name, {<<"d","a","y">>, <<"m","o","n","t","h">>, <<"y","e","a","r">>, <<"d","a","t","e">>, <<"d","o","b">>})
     \/ ContainsHint(callArg.element.id, {<<"d","a","y">>, <<"m","o","n","t","h">>, <<"y","e","a","r">>, <<"d","a","t","e">>, <<"d","o","b">>})

NumberIs(s, n) == LET p == parseInt(s) IN ~p.nan /\ p.n = n

SameText(a, b) == toLowerCase(a) = toLowerCase(b)

\* C22: for a date-related select and a value that parses to a date d, fill
\* selects the first option whose numeric value or text is d.day, d.month or
\* d.year according to the resolved purpose (for month also one whose value
\* or text contains the three-letter month name); with no purpose, or a
\* value that does not parse, the first option whose value or text equals
\* the raw value ignoring case; with no matching option nothing is written.
C22_DateSelect ==
  DateSelectCall =>
    LET d       == parseDate(callArg.value)
        purpose == IF d = Null THEN "null"
                   ELSE detectSelectPurpose(callArg.element, callArg.element.options)
        raw     == callArg.value
    IN CASE purpose = "day" ->
              SelectedOption(FirstOption(LAMBDA o : NumberIs(o.value, d.day) \/ NumberIs(o.text, d.day)))
         [] purpose = "month" ->
              SelectedOption(FirstOption(LAMBDA o :
                 \/ NumberIs(o.value, d.month) \/ NumberIs(o.text, d.month)
                 \/ /\ d.month \in 1..12
                    /\ \/ Includes(toLowerCase(o.value), toLowerCase(monthNames[d.month]))
                       \/ Includes(toLowerCase(o.text), toLowerCase(monthNames[d.month]))))
         [] purpose = "year" ->
              SelectedOption(FirstOption(LAMBDA o : NumberIs(o.value, d.year) \/ NumberIs(o.text, d.year)))
         [] OTHER ->
              SelectedOption(FirstOption(LAMBDA o : SameText(o.value, raw) \/ SameText(o.text, raw)))

\* a month select with numbered values, an ISO date: option "08" is written
C22_Witness ==
  /\ DateSelectCall
  /\ callArg.element.name = <<"d","o","b","_","m","o","n","t","h">>
  /\ callArg.element.options = NumberedMonths
  /\ callArg.value = <<"1","9","9","5","-","0","8","-","1","5">>
  /\ callResult.assigns
  /\ callResult.value = <<"0","8">>

DayHints == {<<"d","a","y">>, <<"d","d">>}

MonthHints == {<<"m","o","n","t","h">>, <<"m","m">>}

YearHints == {<<"y","e","a","r">>, <<"y","y","y","y">>, <<"y","y">>}

HasHint(element, hints) == ContainsHint(element.name, hints) \/ ContainsHint(element.id, hints)

\* C23: detectSelectPurpose uses the hints of the name or id first: day or
\* dd gives day, month or mm gives month, year, yyyy or yy gives year, taken
\* in that order; the options are read only when the name and the id hold
\* none of these hints.
C23_HintsFirst ==
  callPc = "resolved" =>
    LET element == callArg.element
    IN callResult.purpose =
         IF HasHint(element, DayHints) THEN "day"
         ELSE IF HasHint(element, MonthHints) THEN "month"
         ELSE IF HasHint(element, YearHints) THEN "year"
         ELSE PurposeFromOptions(element.options)

TextCall ==
  /\ callPc = "filled"
  /\ callArg.element.tag = "INPUT"
  /\ callArg.element.type = "text"

DateTextHints == {<<"d","a","t","e">>, <<"d","o","b">>, <<"d","d">>}

\* C24: a text control typed date_of_birth, or whose name, id or placeholder
\* contains date, dob or dd, receives the parsed value rendered in the
\* control's detected format, or the raw value when it does not parse;
\* every other text control receives the raw value.
C24_TextDate ==
  TextCall =>
    LET element == callArg.element
        isDate  == \/ callArg.fieldType = "date_of_birth"
                   \/ ContainsHint(element.name, DateTextHints)
                   \/ ContainsHint(element.id, DateTextHints)
                   \/ ContainsHint(element.placeholder, DateTextHints)
        d       == parseDate(callArg.value)
    IN /\ callResult.assigns
       /\ callResult.value =
            IF isDate /\ d # Null THEN formatDateToExpected(d, detectDateFormat(element))
            ELSE callArg.value

----------------------------------------------------------------------------
(* Properties of performAutofill (checked under SpecCommit)                *)

\* the detected controls whose type the value map supplies
Supplied(entries) ==
  { i \in 1..Len(detectedFields) : Lookup(entries, detectedFields[i].fieldType) # <<>> }

\* fillField assigned the control's value or checked it
Wrote(entries, i) ==
  LET field == detectedFields[i]
      o     == Filled[field.element, Lookup(entries, field.fieldType), field.fieldType]
  IN o.assigns \/ o.checks

CommitStep(p) == p.data.defined /\ MsgAutofillForm(p)

\* C25: a committed fill writes and highlights every detected control whose
\* type has a supplied value, leaves the value and highlight of every other
\* detected control as they were, and reports as filled count the number of
\* controls it wrote.
C25_CommittedFill ==
  [][ \A p \in CommitPayloads : CommitStep(p) =>
        LET entries == p.data.entries
        IN /\ \A i \in Supplied(entries) :
                /\ Wrote(entries, i)
                /\ ctl'[detectedFields[i].element].highlighted
           /\ \A i \in (1..Len(detectedFields)) \ Supplied(entries) :
                ctl'[detectedFields[i].element] = ctl[detectedFields[i].element]
           /\ lastOp'.notice.count =
                Cardinality({ i \in Supplied(entries) : Wrote(entries, i) }) ]_vars

----------------------------------------------------------------------------
(* Properties of the mutation observer                                     *)

\* the handler that op records inserted a form or the consent panel: its
\* batch of added nodes started a detection timer
StartedTimer(op) == op.op = "pageAddsForm" \/ op = Op("response")

\* C26: mutation-triggered detection is debounced: of two batches that each
\* introduce a form or an input and arrive with no timer firing in between,
\* the second starts no additional detection pass.
C26_Debounced ==
  [][ (StartedTimer(lastOp) /\ StartedTimer(lastOp')) => pendingDetect' = pendingDetect ]_vars

\* the steps of the engine alone: timers firing and responses arriving
EngineOps == {"detectTimer", "response"}

\* C30: only a form inserted by the page and the consent panel start a
\* detection timer, one each; the button, a notification and the
\* verification panel start none; and once the page and the user are quiet,
\* the pending timers run out and none is started again.
C30_NoChain ==
  /\ [][ pendingDetect' > pendingDetect =>
           /\ pendingDetect' = pendingDetect + 1
           /\ StartedTimer(lastOp') ]_vars
  /\ (<>[](lastOp.op \in EngineOps)) => <>[](pendingDetect = 0)

\* the pass started by the consent panel has run, has put the button back,
\* and has left no timer behind
C30_Witness ==
  /\ consentPopup.open
  /\ lastOp.op = "detectTimer"
  /\ buttonShown
  /\ pendingDetect = 0

----------------------------------------------------------------------------
(* Properties of the value request and of performAutofill (under Spec)     *)

\* C27: the consent panel is opened only by a successful response and holds
\* that response's values; a failure response opens no panel and shows the
\* response's error text, or the generic message when it carries none.
C27_PanelOnSuccess ==
  [][ /\ (consentPopup'.open /\ (~consentPopup.open \/ consentPopup'.data # consentPopup.data)) =>
           \E r \in Responses : r.kind = "ok" /\ ResponseArrives(r)
      /\ \A r \in Responses : ResponseArrives(r) =>
           /\ r.kind = "ok" =>
                consentPopup' = [open |-> TRUE, data |-> r.entries, checked |-> FALSE]
           /\ r.kind = "fail" =>
                /\ consentPopup' = consentPopup
                /\ lastOp'.notice.type = "error"
                /\ lastOp'.notice.message =
                     IF r.error # "" THEN r.error ELSE "Failed to get autofill data" ]_vars

\* a failure response with an error text arrived: no panel, the text is shown
C27_Witness ==
  /\ lastOp.op = "response"
  /\ lastOp.notice.message = "Not authenticated"
  /\ ~consentPopup.open

\* op records a run of performAutofill that got past its fill loop
RanAutofill(op) ==
  /\ op.op \in {"AUTOFILL_FORM", "confirmConsent"}
  /\ op.notice.message = "Filled N fields. Please review before submitting."

----------------------------------------------------------------------------
(* Properties of apiRequest (checked under SpecApi)                        *)

\* how many of the requests of the call went to path
Sent(path) ==
  Cardinality({ i \in 1..Len(callResult.requests) : callResult.requests[i] = path })

\* the first response was a 401 and a refresh token was stored
RefreshDue == callArg.net.first = "401" /\ callArg.auth.refreshToken # "none"

\* C29: one call of apiRequest sends the original request at most twice and
\* refreshes at most once; a 401 with a stored refresh token causes exactly
\* one refresh; after a successful refresh both tokens are replaced and
\* saved and the request is sent once more, its response being returned;
\* after a failed refresh the auth state is reset to logged out and saved,
\* and the 401 is returned.
C29_BoundedRetry ==
  callPc = "returned" =>
    /\ Sent(callArg.endpoint) <= 2
    /\ Sent("/auth/refresh") <= 1
    /\ RefreshDue => Sent("/auth/refresh") = 1
    /\ (RefreshDue /\ callArg.net.refresh = "200") =>
         /\ callResult.auth.accessToken \notin {"none", callArg.auth.accessToken}
         /\ callResult.auth.refreshToken \notin {"none", callArg.auth.refreshToken}
         /\ callResult.saves = <<callResult.auth>>
         /\ Sent(callArg.endpoint) = 2
         /\ callResult.status = callArg.net.retry
    /\ (RefreshDue /\ callArg.net.refresh # "200") =>
         /\ callResult.auth = [accessToken |-> "none", refreshToken |-> "none",
                               user |-> "none", isAuthenticated |-> FALSE]
         /\ callResult.saves = <<callResult.auth>>
         /\ Sent(callArg.endpoint) = 1
         /\ callResult.status = "401"

\* the refresh failed: logged out, and the first 401 came back
C29_Witness ==
  /\ callPc = "returned"
  /\ RefreshDue
  /\ callArg.net.refresh = "401"
  /\ callResult.status = "401"
  /\ ~callResult.auth.isAuthenticated
  /\ callResult.requests = <<callArg.endpoint, "/auth/refresh">>

====
